---- MODULE Spec2Model ----
\* Model of the parallel compute pool of gltf-plugins:
\*   TransformWorkerPool and SharedWorkerPool (orchestrating thread) and the
\*   message handler of WORKER_CODE (worker threads), both from
\*   packages/gltf-static/c3runtime/gltf/TransformWorkerPool.ts.
\* Vertex data is abstracted to what the protocol depends on: which mesh ids a
\* cache holds, whether a skinned mesh has normals, and whether a lighting
\* snapshot is usable.  Messages travel in one FIFO queue per worker and
\* direction, as postMessage delivers them.
EXTENDS Integers, Sequences, FiniteSets, TLC

\* ---------------------------------------------------------------- bounds
MaxMeshId == 1               \* mesh ids are 0..MaxMeshId (GltfMesh._nextId++ starts at 0)
MaxHardwareConcurrency == 3  \* navigator.hardwareConcurrency is 2..MaxHardwareConcurrency
MaxRefs == 2                 \* holders of the shared pool at one time
MaxRegistrations == 2        \* register* calls on one pool object
MaxFlush == 2                \* flush() calls that post work on one pool object
MaxPending == 2              \* requests queued and not yet flushed, all workers and kinds
MaxWorkerArg == 10           \* the workerCount constructor argument is -1..MaxWorkerArg
MaxCores == 12               \* navigator.hardwareConcurrency is 0 (undefined) ..MaxCores
MaxMatrix == 2               \* the instance matrices a model is updated with are 1..MaxMatrix
MaxBatchMeshes == 3          \* cached meshes one batch message names
MaxVertices == 2             \* vertices of a mesh
MaxLights == 2               \* createDirectionalLight() calls; light ids are 0..MaxLights-1
MaxLightValue == 1           \* a colour or an intensity is 0..MaxLightValue
MaxLightRequests == 1        \* skin and static-lighting requests queued in one behaviour
MaxJoint == 1                \* the joints of the skin are 0..MaxJoint
MaxDelta == 2                \* update(deltaTime): deltaTime is 0..MaxDelta ticks
MaxRate == 2                 \* playbackRate is -MaxRate..MaxRate
MaxStart == 4                \* play(name, startTime), setTime(time): -1..MaxStart ticks
MaxElapsed == 6              \* the elapsed time of a looping run is followed up to this size
MaxCompletions == 2          \* onComplete invocations since playback started are counted up to this
MaxAnimMeshes == 2           \* meshes handed to an AnimationController
MaxSkinVertices == 2         \* vertices of the mesh that is skinned
MaxFreeInfluences == 2       \* influences of a vertex whose joint and weight vary; the others weigh 0
MaxDist == 2                 \* a spot light is 0..MaxDist above the vertex
MaxRange == 2                \* the range of a spot light is 0 (none) ..MaxRange
MaxVersion == 4              \* calls that mark the lighting dirty, in one behaviour
MaxAngle == 1                \* a cone angle argument is NaN or 0..MaxAngle degrees
MaxSetting == 1              \* an intensity or range argument is -1..MaxSetting
MaxSkinJoints == 3           \* joints of the skin whose world matrices are computed
MaxTransform == 2            \* a joint's local transform is one of 1..MaxTransform
MaxKeys == 3                 \* keyframe times, and output values, of a sampler
MaxTrackJoint == 1           \* the skin of the sampled channel has joints 0..MaxTrackJoint
MaxTicks == 4                \* ticks of one instance in one behaviour
MaxDt == 2                   \* the dt of a tick is 1..MaxDt
MaxSkip == 2                 \* a frame-skip setting, manual or by distance, is 0..MaxSkip
MaxOffset == 1               \* the stagger offset of the instance is 0..MaxOffset
MaxLoaders == 3              \* GltfModel objects that load the same URL

\* ---------------------------------------------------------------- program constants
MaxPoolWorkers == 8              \* Math.min(workerCount ?? defaultCount, 8)
DefaultHardwareConcurrency == 4  \* navigator.hardwareConcurrency || 4
InfluencesPerVertex == 4         \* for (let j = 0; j < 4; j++)

MeshIds == 0..MaxMeshId
FlushIds == 1..MaxFlush
HardwareConcurrencies == 2..MaxHardwareConcurrency

Min(a, b) == IF a < b THEN a ELSE b
Max(a, b) == IF a > b THEN a ELSE b

\* constructor, without the optional workerCount argument (SharedWorkerPool
\* passes none): `hc` is navigator.hardwareConcurrency, 0 when it is undefined
DefaultWorkerCount(hc) ==
    Min(Max(1, (IF hc = 0 THEN DefaultHardwareConcurrency ELSE hc) - 1), MaxPoolWorkers)

\* The workloads explored: the machine, and how many calls the callers make
\* on one pool object.  Each workload stretches one dimension to its bound.
Workloads ==
    {[hardwareConcurrency |-> hc, registrations |-> MaxRegistrations, flushes |-> 1,
      pending |-> 1, refs |-> 1] : hc \in HardwareConcurrencies}
    \cup {[hardwareConcurrency |-> hc, registrations |-> 1, flushes |-> MaxFlush,
           pending |-> MaxPending, refs |-> 1] : hc \in HardwareConcurrencies}
    \cup {[hardwareConcurrency |-> hc, registrations |-> 1, flushes |-> 1,
           pending |-> 1, refs |-> MaxRefs] : hc \in HardwareConcurrencies}

\* A lighting snapshot as the worker sees it: absent (skinning only), a
\* well-formed WorkerLightConfig, or an object without its `ambient` array, for
\* which calculateLighting throws a TypeError at `ambient[0]`.
SkinLightConfigs == {"none", "noAmbient"}
StaticLightConfigs == {"valid"}

VARIABLES
    env,                     \* the workload of this behaviour; never changes
    instance,                \* SharedWorkerPool._instance !== null
    refCount,                \* SharedWorkerPool._refCount
    flushScheduled,          \* SharedWorkerPool._flushScheduled
    disposed,                \* TransformWorkerPool._disposed (TRUE also while no pool object exists)
    workerCount,             \* TransformWorkerPool._workerCount (0 while no pool object exists)
    running,                 \* TransformWorkerPool._workers: indices of the workers not terminated
    meshRegistry,            \* _meshRegistry
    skinnedMeshRegistry,     \* _skinnedMeshRegistry
    staticLightingRegistry,  \* _staticLightingRegistry
    pendingByWorker,         \* _pendingByWorker
    pendingSkinByWorker,     \* _pendingSkinByWorker
    pendingLightingByWorker, \* _pendingLightingByWorker
    flushResolvers,          \* _flushResolvers (the flush each resolver belongs to)
    pendingResponses,        \* _pendingResponses
    pendingResults,          \* _pendingResults
    nextWorkerIndex,         \* _nextWorkerIndex
    inbox,                   \* messages posted to each worker and not yet handled by it
    outbox,                  \* messages posted by each worker and not yet handled by the pool
    meshCache,               \* WORKER_CODE meshCache, per worker
    skinnedMeshCache,        \* WORKER_CODE skinnedMeshCache, per worker
    staticLightingCache,     \* WORKER_CODE staticLightingCache, per worker
    \* history variables (observations, not program state)
    nextFlush,               \* number of the next flush() that posts work
    outstanding,             \* per flush: batch messages it posted that no worker has answered yet
    resolved,                \* flushes whose promise has been resolved
    registrations,           \* number of register* calls made on the pool object
    live,                    \* the callbacks a caller has registered and not unregistered since
    unanswered,              \* batch messages a worker consumed without posting a response
    obs,                     \* what the last step did: callbacks invoked, results skipped, batch processed
    \* components studied on their own, each in one record
    sizing,                  \* a `new TransformWorkerPool(workerCount)` call: its inputs and outcome
    gltfModel,               \* one GltfModel with one mesh: its worker fields and its last update
    packing,                 \* one batch on its way: the worker's packed response, the slices handed out
    lighting,                \* the light registry and the requests that carry a snapshot of it
    anim,                    \* one AnimationController: its playback fields, pose and last call
    queries,                 \* the per-mesh query last made on an AnimationController and how it ended
    skinning,                \* one skinned mesh: its influences, where it was skinned and the positions written
    shading,                 \* one vertex and one light state: the colour each lighting evaluator gives it
    lightGlobals,                \* the Lighting module's globals: lights, spot lights, settings, id counter, version
    skeleton,                \* one skin: each joint's parent and local transform, the world matrices and the computed flags
    track,                   \* one channel of a clip: the glTF sampler it was loaded from, the extracted sampler, whether it is active and sampled
    ticker,                \* one animated plugin instance: its frame-skip counters and which path skins its meshes
    loader                   \* the models loading one URL: the model cache entry, the shared pool count and each model's progress

poolVars == <<disposed, workerCount, running, meshRegistry, skinnedMeshRegistry,
              staticLightingRegistry, pendingByWorker, pendingSkinByWorker,
              pendingLightingByWorker, flushResolvers, pendingResponses, pendingResults,
              nextWorkerIndex>>
sharedVars == <<instance, refCount, flushScheduled>>
workerVars == <<inbox, outbox, meshCache, skinnedMeshCache, staticLightingCache>>
historyVars == <<nextFlush, outstanding, resolved, registrations, live, unanswered, obs>>
componentVars == <<sizing, gltfModel, packing, lighting, anim, queries, skinning, shading, lightGlobals, skeleton, track, ticker, loader>>
vars == <<env, sharedVars, poolVars, workerVars, historyVars, componentVars>>

\* ---------------------------------------------------------------- values
Workers == 0..(workerCount - 1)

\* Map.get() of an id that is not a key
NoReg == [workerIndex |-> -1, callback |-> 0, hasNormals |-> FALSE]

NoBatch == [worker |-> -1, type |-> "none", requested |-> <<>>, stale |-> {}, cached |-> {},
            failed |-> {}, threw |-> FALSE, replied |-> FALSE, meshIds |-> <<>>]
NoObs == [invoked |-> {}, skipped |-> {}, batch |-> NoBatch, posted |-> {}, queued |-> {}]

EmptyRegistry == [id \in MeshIds |-> NoReg]
EmptyQueues(n) == [w \in 0..(n - 1) |-> <<>>]
EmptyCaches(n) == [w \in 0..(n - 1) |-> {}]
EmptySkinCaches(n) == [w \in 0..(n - 1) |-> [id \in MeshIds |-> "absent"]]

Range(s) == {s[i] : i \in 1..Len(s)}

RECURSIVE SumLen(_, _)
SumLen(f, S) == IF S = {} THEN 0
                ELSE LET w == CHOOSE x \in S : TRUE IN Len(f[w]) + SumLen(f, S \ {w})

\* Uint32Array element store: meshIds[i] = meshId keeps the id modulo 2^32,
\* written over 16-bit halves
ToUint32(n) == ((n \div 65536) % 65536) * 65536 + (n % 65536)

\* a message to a worker; `flush` and `stale` are history tags, not payload
Msg(type, ids, normals, lc, f, st) ==
    [type |-> type, meshIds |-> ids, normals |-> normals, lightConfig |-> lc,
     flush |-> f, stale |-> st]

\* no constructor call under study
NoSizing == [given |-> FALSE, arg |-> 0, hc |-> 0, built |-> FALSE, workerCount |-> 0,
             workers |-> 0]

\* a GltfModel after construction: _workerPool = null, _useWorkers = false,
\* _lastMatrix = null (0), no mesh yet
NoModel == [loaded |-> FALSE, useWorkers |-> FALSE, workerPool |-> FALSE,
            meshPool |-> FALSE, registered |-> FALSE, lastMatrix |-> 0,
            path |-> "none", acquireFailed |-> FALSE, threw |-> FALSE]

\* no batch under study
NoPacking == [type |-> "none", entries |-> <<>>, lit |-> FALSE, stage |-> "none",
              offsets |-> <<>>, positions |-> <<>>, normals |-> <<>>, colors |-> <<>>,
              hasNormals |-> FALSE, hasColors |-> FALSE, delivered |-> <<>>]

\* the light registry of Lighting (globalThis.gltfLights, gltfAmbientLight,
\* gltfHemisphereLight, gltfLightIdCounter) when the module is loaded, and no
\* request queued.  `objects` are the light objects ever created, by id: an
\* object outlives its removal from `lights`.
NoLighting == [lights |-> <<>>, objects |-> <<>>, ambient |-> 0, hemisphere |-> FALSE,
               requests |-> <<>>]

\* the local transform _resetToBindPose gives a joint; a transform written by
\* a channel names the clip and the sampled time instead
BindTransform == [clip |-> 0, at |-> 0]
Joints == 0..MaxJoint

\* no call made on the controller yet
NoCall == [op |-> "new", name |-> "", index |-> 0, arg |-> 0]

\* an AnimationController after its constructor: no current clip, time 0, not
\* playing, not paused, playbackRate 1, loop true, every joint in bind pose
\* and the matrices computed from it.  `current` is 0 for null, else the
\* position of the clip in _animations counted from 1.  The last four fields
\* are history: the last call, the onComplete invocations it made, those made
\* since playback was last started, and the elapsed time of a looping run.
NoAnim == [current |-> 0, time |-> 0, isPlaying |-> FALSE, isPaused |-> FALSE,
           playbackRate |-> 1, loop |-> TRUE,
           jointTransforms |-> [j \in Joints |-> BindTransform],
           boneMatrices |-> [j \in Joints |-> [of |-> BindTransform]],
           call |-> NoCall, fired |-> 0, completions |-> 0,
           elapsed |-> [valid |-> FALSE, total |-> 0]]

\* no controller under query
NoQueries == [built |-> FALSE, meshes |-> <<>>, op |-> "none", meshIndex |-> 0,
              threw |-> FALSE, returned |-> "nothing"]

\* no mesh under skinning
NoSkinning == [vertices |-> <<>>, by |-> "none", output |-> <<>>]

\* no colour computed by either lighting evaluator
NoColor == [done |-> FALSE, r |-> 0, g |-> 0, b |-> 0, a |-> 0]

\* no vertex under lighting
NoShading == [input |-> [nz |-> 1, hemisphere |-> FALSE, directional |-> "absent",
                         dirSpecular |-> FALSE, spot |-> "absent", spotDir |-> 1,
                         dist |-> 0, range |-> 0, spotSpecular |-> FALSE,
                         specularIntensity |-> 0, debugBlue |-> FALSE, camera |-> "absent"],
              main |-> NoColor, worker |-> NoColor]

\* the Lighting globals when the module is loaded: no light, id counter 0,
\* version 0, hemisphere disabled; `returned` is history, the ids the create
\* functions have returned, in order
NoRegistry == [lights |-> <<>>, spotLights |-> <<>>, ambient |-> 0, hemisphere |-> FALSE,
               specularIntensity |-> 1, idCounter |-> 0, version |-> 0, returned |-> <<>>]

\* a skin without joints
NoSkeleton == [parents |-> <<>>, transforms |-> <<>>, world |-> <<>>, computed |-> <<>>]

\* a channel of which nothing was loaded
NoTrack == [gltf |-> [input |-> [accessor |-> FALSE, length |-> 0],
                      output |-> [accessor |-> FALSE, length |-> 0],
                      interpolation |-> "LINEAR", targetJointIndex |-> -1],
            sampler |-> [input |-> <<>>, output |-> <<>>, interpolation |-> "LINEAR"],
            played |-> FALSE, active |-> FALSE, sampled |-> FALSE,
            time |-> 0, value |-> [null |-> TRUE, at |-> 0]]

\* an instance that is not ticking; `ticks`, `ticked`, `passed`, `updated` and
\* `skinnedBy` are history: the ticks so far and their dt, the delta times passed
\* to AnimationController.update, whether the last step updated the animation
\* and the paths that computed positions in that update
NoInstance == [animationFrameSkip |-> 0, frameCounter |-> 0, accumulatedDt |-> 0,
               frameOffset |-> 0, distanceLodEnabled |-> FALSE,
               hasWorkerSkinning |-> FALSE, useWorkerSkinning |-> FALSE,
               ticks |-> 0, ticked |-> 0, passed |-> 0, updated |-> FALSE, skinnedBy |-> {}]

\* no model was created: the cache is empty, nothing loads, the shared pool
\* has no reference
NoLoader == [pc |-> <<>>, released |-> <<>>, cachedUrl |-> <<>>, workerPool |-> <<>>,
             cache |-> [present |-> FALSE, refCount |-> 0, deleted |-> 0],
             loading |-> FALSE, poolRefCount |-> 0]

\* the components a specification does not exercise stay as they start
Idle(active) ==
    /\ IF active = "sizing" THEN TRUE ELSE sizing = NoSizing
    /\ IF active = "model" THEN TRUE ELSE gltfModel = NoModel
    /\ IF active = "packing" THEN TRUE ELSE packing = NoPacking
    /\ IF active = "lighting" THEN TRUE ELSE lighting = NoLighting
    /\ IF active = "anim" THEN TRUE ELSE anim = NoAnim
    /\ IF active = "queries" THEN TRUE ELSE queries = NoQueries
    /\ IF active = "skinning" THEN TRUE ELSE skinning = NoSkinning
    /\ IF active = "shading" THEN TRUE ELSE shading = NoShading
    /\ IF active = "registry" THEN TRUE ELSE lightGlobals = NoRegistry
    /\ IF active = "skeleton" THEN TRUE ELSE skeleton = NoSkeleton
    /\ IF active = "track" THEN TRUE ELSE track = NoTrack
    /\ IF active = "instance" THEN TRUE ELSE ticker = NoInstance
    /\ IF active = "loader" THEN TRUE ELSE loader = NoLoader

Keep(active) ==
    /\ IF active = "sizing" THEN TRUE ELSE UNCHANGED sizing
    /\ IF active = "model" THEN TRUE ELSE UNCHANGED gltfModel
    /\ IF active = "packing" THEN TRUE ELSE UNCHANGED packing
    /\ IF active = "lighting" THEN TRUE ELSE UNCHANGED lighting
    /\ IF active = "anim" THEN TRUE ELSE UNCHANGED anim
    /\ IF active = "queries" THEN TRUE ELSE UNCHANGED queries
    /\ IF active = "skinning" THEN TRUE ELSE UNCHANGED skinning
    /\ IF active = "shading" THEN TRUE ELSE UNCHANGED shading
    /\ IF active = "registry" THEN TRUE ELSE UNCHANGED lightGlobals
    /\ IF active = "skeleton" THEN TRUE ELSE UNCHANGED skeleton
    /\ IF active = "track" THEN TRUE ELSE UNCHANGED track
    /\ IF active = "instance" THEN TRUE ELSE UNCHANGED ticker
    /\ IF active = "loader" THEN TRUE ELSE UNCHANGED loader

\* SharedWorkerPool before the first acquire(): no pool object, no workers
PoolInit ==
    /\ instance = FALSE
    /\ refCount = 0
    /\ flushScheduled = FALSE
    /\ disposed = TRUE
    /\ workerCount = 0
    /\ running = {}
    /\ meshRegistry = EmptyRegistry
    /\ skinnedMeshRegistry = EmptyRegistry
    /\ staticLightingRegistry = EmptyRegistry
    /\ pendingByWorker = EmptyQueues(0)
    /\ pendingSkinByWorker = EmptyQueues(0)
    /\ pendingLightingByWorker = EmptyQueues(0)
    /\ flushResolvers = <<>>
    /\ pendingResponses = 0
    /\ pendingResults = <<>>
    /\ nextWorkerIndex = 0
    /\ inbox = EmptyQueues(0)
    /\ outbox = EmptyQueues(0)
    /\ meshCache = EmptyCaches(0)
    /\ skinnedMeshCache = EmptySkinCaches(0)
    /\ staticLightingCache = EmptyCaches(0)
    /\ nextFlush = 1
    /\ outstanding = [f \in FlushIds |-> 0]
    /\ resolved = {}
    /\ registrations = 0
    /\ live = {}
    /\ unanswered = 0
    /\ obs = NoObs

Init ==
    /\ env \in Workloads
    /\ PoolInit
    /\ Idle("pool")

\* ---------------------------------------------------------------- SharedWorkerPool / lifecycle
\* Parts of a step that leave whole groups of variables alone
KeepHistory == UNCHANGED <<nextFlush, outstanding, resolved, registrations, live, unanswered>>
KeepRegistries == UNCHANGED <<meshRegistry, skinnedMeshRegistry, staticLightingRegistry>>
KeepPending == UNCHANGED <<pendingByWorker, pendingSkinByWorker, pendingLightingByWorker>>
KeepCaches == UNCHANGED <<meshCache, skinnedMeshCache, staticLightingCache>>

TotalPending == SumLen(pendingByWorker, Workers) + SumLen(pendingSkinByWorker, Workers)
                + SumLen(pendingLightingByWorker, Workers)

\* new TransformWorkerPool(): the field initialisers, the constructor and
\* _initWorkers(); every worker starts with an empty message queue and empty caches
Construct(n) ==
    /\ disposed' = FALSE
    /\ workerCount' = n
    /\ running' = 0..(n - 1)
    /\ meshRegistry' = EmptyRegistry
    /\ skinnedMeshRegistry' = EmptyRegistry
    /\ staticLightingRegistry' = EmptyRegistry
    /\ pendingByWorker' = EmptyQueues(n)
    /\ pendingSkinByWorker' = EmptyQueues(n)
    /\ pendingLightingByWorker' = EmptyQueues(n)
    /\ flushResolvers' = <<>>
    /\ pendingResponses' = 0
    /\ pendingResults' = <<>>
    /\ nextWorkerIndex' = 0
    /\ inbox' = EmptyQueues(n)
    /\ outbox' = EmptyQueues(n)
    /\ meshCache' = EmptyCaches(n)
    /\ skinnedMeshCache' = EmptySkinCaches(n)
    /\ staticLightingCache' = EmptyCaches(n)

\* the history variables describe one pool object and start afresh with it
FreshHistory ==
    /\ nextFlush' = 1
    /\ outstanding' = [f \in FlushIds |-> 0]
    /\ resolved' = {}
    /\ registrations' = 0
    /\ live' = {}
    /\ unanswered' = 0

ResolveNone(resolvers) == {}

\* dispose(): `for (const resolve of this._flushResolvers) resolve()`, the
\* flushes whose promise it resolves
ResolvePending(resolvers) == Range(resolvers)

\* TransformWorkerPool.dispose() on a pool that is not yet disposed.
\* worker.terminate() discards the worker with its caches and its queued messages.
Dispose ==
    /\ disposed' = TRUE
    /\ running' = {}
    /\ meshRegistry' = EmptyRegistry
    /\ skinnedMeshRegistry' = EmptyRegistry
    /\ staticLightingRegistry' = EmptyRegistry
    /\ pendingByWorker' = EmptyQueues(workerCount)
    /\ pendingSkinByWorker' = EmptyQueues(workerCount)
    /\ pendingLightingByWorker' = EmptyQueues(workerCount)
    /\ pendingResults' = <<>>
    /\ resolved' = resolved \cup ResolvePending(flushResolvers)
    /\ flushResolvers' = <<>>
    /\ UNCHANGED <<workerCount, pendingResponses, nextWorkerIndex>>
    /\ inbox' = EmptyQueues(workerCount)
    /\ outbox' = EmptyQueues(workerCount)
    /\ meshCache' = EmptyCaches(workerCount)
    /\ skinnedMeshCache' = EmptySkinCaches(workerCount)
    /\ staticLightingCache' = EmptyCaches(workerCount)

\* SharedWorkerPool.acquire()
Acquire ==
    /\ refCount < env.refs
    /\ IF ~instance
         THEN /\ Construct(DefaultWorkerCount(env.hardwareConcurrency))
              /\ instance' = TRUE
              /\ FreshHistory
         ELSE /\ UNCHANGED <<poolVars, workerVars, instance>>
              /\ KeepHistory
    /\ refCount' = refCount + 1
    /\ obs' = NoObs
    /\ UNCHANGED <<env, flushScheduled>>

\* release(): the test `_refCount === 0` made after the decrement
LastReferenceEarly(rc) == rc <= 1
LastReference(rc) == rc = 0

\* SharedWorkerPool.release()
Release ==
    /\ refCount > 0
    /\ refCount' = refCount - 1
    /\ IF LastReference(refCount - 1) /\ instance
         THEN /\ flushScheduled' = FALSE
              /\ Dispose
              /\ instance' = FALSE
         ELSE /\ UNCHANGED <<poolVars, workerVars, instance, flushScheduled, resolved>>
    /\ obs' = NoObs
    /\ UNCHANGED <<env, nextFlush, outstanding, registrations, live, unanswered>>

\* SharedWorkerPool.scheduleFlush()
ScheduleFlush ==
    /\ instance
    /\ flushScheduled' = TRUE
    /\ obs' = NoObs
    /\ UNCHANGED <<env, instance, refCount, poolVars, workerVars>>
    /\ KeepHistory

\* ---------------------------------------------------------------- registration
Post(w, m) == [inbox EXCEPT ![w] = Append(@, m)]

\* The geometry a caller registers is that of the mesh: in this model the
\* skinned meshes with an odd id carry normals, the others pass `normals: null`
SkinNormals(meshId) == meshId % 2 = 1

\* every register call passes a closure of its own: the n-th call on a pool
\* passes callback n
Callback(n, meshId) == [callback |-> n, meshId |-> meshId]

\* registry.set(meshId, { workerIndex, callback, hasNormals })
Register(registry, meshId, hasNormals) ==
    [registry EXCEPT ![meshId] = [workerIndex |-> nextWorkerIndex,
                                  callback |-> registrations + 1,
                                  hasNormals |-> hasNormals]]

\* The three register methods share the round-robin assignment and the post
\* to the assigned worker; on a disposed pool each returns at once, a step
\* that changes nothing.
RegisterCommon(type, meshId, hasNormals) ==
    /\ ~disposed
    /\ registrations < env.registrations
    /\ nextWorkerIndex' = (nextWorkerIndex + 1) % workerCount
    /\ inbox' = Post(nextWorkerIndex, Msg(type, <<meshId>>, hasNormals, "none", 0, {}))
    /\ registrations' = registrations + 1
    /\ live' = live \cup {Callback(registrations + 1, meshId)}
    /\ obs' = NoObs
    /\ UNCHANGED <<env, sharedVars, disposed, workerCount, running, flushResolvers, pendingResponses,
                   pendingResults, outbox, nextFlush, outstanding, resolved, unanswered>>
    /\ KeepPending
    /\ KeepCaches

\* registerMesh(meshId, positions, callback)
RegisterMesh(meshId) ==
    /\ RegisterCommon("REGISTER", meshId, FALSE)
    /\ meshRegistry' = Register(meshRegistry, meshId, FALSE)
    /\ UNCHANGED <<skinnedMeshRegistry, staticLightingRegistry>>

\* registerSkinnedMesh(meshId, positions, normals, joints, weights, callback)
RegisterSkinnedMesh(meshId) ==
    /\ RegisterCommon("REGISTER_SKIN", meshId, SkinNormals(meshId))
    /\ skinnedMeshRegistry' = Register(skinnedMeshRegistry, meshId, SkinNormals(meshId))
    /\ UNCHANGED <<meshRegistry, staticLightingRegistry>>

\* registerStaticMeshForLighting(meshId, positions, normals, callback)
RegisterStaticMeshForLighting(meshId) ==
    /\ RegisterCommon("REGISTER_STATIC_LIGHTING", meshId, TRUE)
    /\ staticLightingRegistry' = Register(staticLightingRegistry, meshId, FALSE)
    /\ UNCHANGED <<meshRegistry, skinnedMeshRegistry>>

\* Map.delete(meshId)
KeepReg(registry, meshId) == registry
DeleteReg(registry, meshId) == [registry EXCEPT ![meshId] = NoReg]

\* history: a queued request that names meshId has outlived its registration
MarkStale(queue, meshId) ==
    [w \in Workers |-> [i \in 1..Len(queue[w]) |->
        IF meshId \in Range(queue[w][i].meshIds)
          THEN [queue[w][i] EXCEPT !.stale = @ \cup {meshId}]
          ELSE queue[w][i]]]

\* unregisterMesh(meshId)
UnregisterMesh(meshId) ==
    LET registration == IF meshRegistry[meshId] # NoReg THEN meshRegistry[meshId]
                        ELSE skinnedMeshRegistry[meshId]
    IN /\ instance
       /\ IF registration # NoReg /\ ~disposed
            THEN inbox' = Post(registration.workerIndex,
                               Msg("UNREGISTER", <<meshId>>, FALSE, "none", 0, {}))
            ELSE UNCHANGED inbox
       /\ meshRegistry' = DeleteReg(meshRegistry, meshId)
       /\ skinnedMeshRegistry' = DeleteReg(skinnedMeshRegistry, meshId)
       /\ staticLightingRegistry' = DeleteReg(staticLightingRegistry, meshId)
       /\ live' = {c \in live : c.meshId # meshId}
       /\ pendingByWorker' = MarkStale(pendingByWorker, meshId)
       /\ pendingSkinByWorker' = MarkStale(pendingSkinByWorker, meshId)
       /\ pendingLightingByWorker' = MarkStale(pendingLightingByWorker, meshId)
       /\ obs' = NoObs
       /\ UNCHANGED <<env, sharedVars, disposed, workerCount, running, flushResolvers, pendingResponses,
                      pendingResults, nextWorkerIndex, outbox, nextFlush, outstanding,
                      resolved, registrations, unanswered>>
       /\ KeepCaches

\* ---------------------------------------------------------------- queueing
\* the worker a request is queued for: registration.workerIndex
NextWorker(registration) == nextWorkerIndex
TargetWorker(registration) == registration.workerIndex

Request(ids, lc) == [meshIds |-> ids, lightConfig |-> lc, stale |-> {}]

\* queueTransform(meshId, matrix); an unregistered id only logs a warning
QueueTransform(meshId) ==
    /\ ~disposed
    /\ TotalPending < env.pending
    /\ meshRegistry[meshId] # NoReg
    /\ pendingByWorker' = [pendingByWorker EXCEPT
           ![TargetWorker(meshRegistry[meshId])] = Append(@, Request(<<meshId>>, "none"))]
    /\ obs' = NoObs
    /\ UNCHANGED <<env, sharedVars, disposed, workerCount, running, flushResolvers, pendingResponses, pendingResults,
                   nextWorkerIndex, pendingSkinByWorker, pendingLightingByWorker, workerVars>>
    /\ KeepRegistries
    /\ KeepHistory

\* the `byWorker` map of queueSkinning / queueStaticLighting: the registered
\* ids of the call, grouped by the worker of their registration, in call order
ByWorker(registry, meshIds, w) ==
    SelectSeq(meshIds, LAMBDA id : registry[id] # NoReg /\ TargetWorker(registry[id]) = w)

QueueGrouped(queue, registry, meshIds, lc) ==
    [w \in Workers |-> IF ByWorker(registry, meshIds, w) = <<>> THEN queue[w]
                       ELSE Append(queue[w], Request(ByWorker(registry, meshIds, w), lc))]

\* the mesh id lists a caller passes: non-empty, without repetition, in the
\* order of the model's mesh list
IdLists == {<<a>> : a \in MeshIds} \cup {p \in MeshIds \X MeshIds : p[1] < p[2]}

\* queueSkinning(meshIds, boneMatrices, lightConfig)
QueueSkinning(meshIds, lc) ==
    /\ ~disposed
    /\ pendingSkinByWorker' = QueueGrouped(pendingSkinByWorker, skinnedMeshRegistry, meshIds, lc)
    /\ SumLen(pendingSkinByWorker', Workers) - SumLen(pendingSkinByWorker, Workers)
         \in 1..(env.pending - TotalPending)
    /\ obs' = NoObs
    /\ UNCHANGED <<env, sharedVars, disposed, workerCount, running, flushResolvers, pendingResponses, pendingResults,
                   nextWorkerIndex, pendingByWorker, pendingLightingByWorker, workerVars>>
    /\ KeepRegistries
    /\ KeepHistory

\* queueStaticLighting(meshIds, lightConfig)
QueueStaticLighting(meshIds, lc) ==
    /\ ~disposed
    /\ pendingLightingByWorker' =
           QueueGrouped(pendingLightingByWorker, staticLightingRegistry, meshIds, lc)
    /\ SumLen(pendingLightingByWorker', Workers) - SumLen(pendingLightingByWorker, Workers)
         \in 1..(env.pending - TotalPending)
    /\ obs' = NoObs
    /\ UNCHANGED <<env, sharedVars, disposed, workerCount, running, flushResolvers, pendingResponses, pendingResults,
                   nextWorkerIndex, pendingByWorker, pendingSkinByWorker, workerVars>>
    /\ KeepRegistries
    /\ KeepHistory

\* ---------------------------------------------------------------- flush
BatchTypes == {"TRANSFORM_BATCH", "SKIN_BATCH", "LIGHTING_BATCH"}

RECURSIVE AllIds(_)
AllIds(queue) == IF queue = <<>> THEN <<>> ELSE Head(queue).meshIds \o AllIds(Tail(queue))

AllStale(queue) == UNION {queue[i].stale : i \in 1..Len(queue)}

\* flush(), transform part for worker w: the whole pending list travels as
\* the `requests` of one TRANSFORM_BATCH
TransformMsgsPerRequest(w, f) ==
    [i \in 1..Len(pendingByWorker[w]) |->
        Msg("TRANSFORM_BATCH", pendingByWorker[w][i].meshIds, FALSE, "none", f,
            pendingByWorker[w][i].stale)]
TransformMsgs(w, f) ==
    IF Len(pendingByWorker[w]) > 0
      THEN <<Msg("TRANSFORM_BATCH", AllIds(pendingByWorker[w]), FALSE, "none", f,
                 AllStale(pendingByWorker[w]))>>
      ELSE <<>>

\* flush(), skinning part: one SKIN_BATCH per queued request
SkinMsgs(w, f) ==
    [i \in 1..Len(pendingSkinByWorker[w]) |->
        Msg("SKIN_BATCH", pendingSkinByWorker[w][i].meshIds, FALSE,
            pendingSkinByWorker[w][i].lightConfig, f, pendingSkinByWorker[w][i].stale)]

\* flush(), static lighting part: one LIGHTING_BATCH per queued request
LightingMsgs(w, f) ==
    [i \in 1..Len(pendingLightingByWorker[w]) |->
        Msg("LIGHTING_BATCH", pendingLightingByWorker[w][i].meshIds, FALSE,
            pendingLightingByWorker[w][i].lightConfig, f, pendingLightingByWorker[w][i].stale)]

\* the queue flush() drains into the messages of a type
PendingOf(type) ==
    CASE type = "TRANSFORM_BATCH" -> pendingByWorker
      [] type = "SKIN_BATCH" -> pendingSkinByWorker
      [] type = "LIGHTING_BATCH" -> pendingLightingByWorker

FlushMsgs(w, f) == TransformMsgs(w, f) \o SkinMsgs(w, f) \o LightingMsgs(w, f)

\* flush(): `this._pendingResponses = workersWithWork`
SetResponses(current, workersWithWork) == workersWithWork

\* TransformWorkerPool.flush() on a pool that is not disposed
FlushBody ==
    LET posted == [w \in Workers |-> FlushMsgs(w, nextFlush)]
        workersWithWork == SumLen(posted, Workers)
    IN /\ inbox' = [w \in Workers |-> inbox[w] \o posted[w]]
       /\ pendingByWorker' = EmptyQueues(workerCount)
       /\ pendingSkinByWorker' = EmptyQueues(workerCount)
       /\ pendingLightingByWorker' = EmptyQueues(workerCount)
       /\ obs' = [NoObs EXCEPT
              !.posted = {<<p[1], p[2], posted[p[1]][p[2]].type>> :
                  p \in {q \in Workers \X (1..MaxPending) : q[2] <= Len(posted[q[1]])}},
              !.queued = {q \in Workers \X BatchTypes \X (1..MaxPending) :
                  q[3] = Len(PendingOf(q[2])[q[1]])}]
       /\ IF workersWithWork = 0
            THEN UNCHANGED <<pendingResponses, flushResolvers, nextFlush, outstanding>>
            ELSE /\ pendingResponses' = SetResponses(pendingResponses, workersWithWork)
                 /\ flushResolvers' = Append(flushResolvers, nextFlush)
                 /\ nextFlush' = nextFlush + 1
                 /\ outstanding' = [outstanding EXCEPT ![nextFlush] = workersWithWork]
       /\ UNCHANGED <<env, instance, refCount, disposed, workerCount, running, pendingResults, nextWorkerIndex,
                      outbox, resolved, registrations, live, unanswered>>
       /\ KeepRegistries
       /\ KeepCaches

\* a direct call of flush(), as GltfModel.updateTransformAsync makes
Flush ==
    /\ ~disposed
    /\ nextFlush <= env.flushes
    /\ TotalPending > 0
    /\ FlushBody
    /\ UNCHANGED flushScheduled

\* SharedWorkerPool.flushIfPending()
FlushIfPending ==
    /\ instance
    /\ flushScheduled
    /\ nextFlush <= env.flushes
    /\ flushScheduled' = FALSE
    /\ FlushBody

\* ---------------------------------------------------------------- worker (WORKER_CODE self.onmessage)
\* the loop `for (...) { entry = cache.get(id); if (!entry) continue; meshEntries.push(...) }`
AllRequested(ids, cached) == ids
PresentIds(ids, cached) == SelectSeq(ids, LAMBDA id : id \in cached)

\* the ids the cache of a request kind holds in worker w
Cached(type, w) ==
    CASE type = "TRANSFORM_BATCH" -> meshCache[w]
      [] type = "SKIN_BATCH" -> {id \in MeshIds : skinnedMeshCache[w][id] # "absent"}
      [] type = "LIGHTING_BATCH" -> staticLightingCache[w]

\* the meshes of a batch for which calculateLighting is called: in SKIN_BATCH
\* those with normals, if packedColors was allocated; in LIGHTING_BATCH all
Lit(m, w, entries) ==
    CASE m.type = "TRANSFORM_BATCH" -> {}
      [] m.type = "SKIN_BATCH" ->
           IF m.lightConfig = "none" THEN {}
           ELSE {id \in Range(entries) : skinnedMeshCache[w][id] = "normals"}
      [] m.type = "LIGHTING_BATCH" -> Range(entries)

\* the meshes whose processing throws: calculateLighting reads ambient[0]
Failing(m, w, entries) == IF m.lightConfig = "noAmbient" THEN Lit(m, w, entries) ELSE {}

ResultType(type) ==
    CASE type = "TRANSFORM_BATCH" -> "TRANSFORM_RESULTS"
      [] type = "SKIN_BATCH" -> "SKIN_RESULTS"
      [] type = "LIGHTING_BATCH" -> "LIGHTING_RESULTS"

\* the response of a batch: meshIds is a Uint32Array filled from the entries
Response(m, entries) ==
    [type |-> ResultType(m.type),
     meshIds |-> [i \in 1..Len(entries) |-> ToUint32(entries[i])],
     flush |-> m.flush]

\* REGISTER, REGISTER_SKIN, REGISTER_STATIC_LIGHTING and UNREGISTER
WorkerCacheStep(w, m) ==
    LET id == m.meshIds[1]
    IN /\ meshCache' = [meshCache EXCEPT ![w] =
              CASE m.type = "REGISTER" -> @ \cup {id}
                [] m.type = "UNREGISTER" -> @ \ {id}
                [] OTHER -> @]
       /\ skinnedMeshCache' = [skinnedMeshCache EXCEPT ![w][id] =
              CASE m.type = "REGISTER_SKIN" -> IF m.normals THEN "normals" ELSE "noNormals"
                [] m.type = "UNREGISTER" -> "absent"
                [] OTHER -> @]
       /\ staticLightingCache' = [staticLightingCache EXCEPT ![w] =
              CASE m.type = "REGISTER_STATIC_LIGHTING" -> @ \cup {id}
                [] m.type = "UNREGISTER" -> @ \ {id}
                [] OTHER -> @]
       /\ obs' = NoObs
       /\ UNCHANGED <<outbox, outstanding, unanswered>>

\* TRANSFORM_BATCH, SKIN_BATCH and LIGHTING_BATCH: an exception thrown while a
\* mesh is processed leaves the handler, so postMessage is never reached
WorkerBatchStep(w, m) ==
    LET entries == PresentIds(m.meshIds, Cached(m.type, w))
        failed == Failing(m, w, entries)
        threw == failed # {}
    IN /\ IF threw
            THEN /\ unanswered' = unanswered + 1
                 /\ UNCHANGED <<outbox, outstanding>>
            ELSE /\ outbox' = [outbox EXCEPT ![w] = Append(@, Response(m, entries))]
                 /\ outstanding' = [outstanding EXCEPT ![m.flush] = @ - 1]
                 /\ UNCHANGED unanswered
       /\ obs' = [NoObs EXCEPT !.batch =
              [worker |-> w, type |-> m.type, requested |-> m.meshIds, stale |-> m.stale,
               cached |-> Cached(m.type, w), failed |-> failed, threw |-> threw,
               replied |-> ~threw,
               meshIds |-> IF threw THEN <<>> ELSE Response(m, entries).meshIds]]
       /\ KeepCaches

\* worker w handles the next message of its queue
WorkerStep(w) ==
    /\ w \in running
    /\ inbox[w] # <<>>
    /\ inbox' = [inbox EXCEPT ![w] = Tail(@)]
    /\ IF Head(inbox[w]).type \in BatchTypes
         THEN WorkerBatchStep(w, Head(inbox[w]))
         ELSE WorkerCacheStep(w, Head(inbox[w]))
    /\ UNCHANGED <<env, sharedVars, poolVars, nextFlush, resolved, registrations, live>>

\* ---------------------------------------------------------------- responses
\* _handleMessage: `msg.positions && msg.meshIds && msg.offsets` (or msg.colors
\* for lighting); the worker always sends typed arrays, and an empty typed
\* array is truthy
NonEmptyOnly(msg) == Len(msg.meshIds) > 0
IsCollectable(msg) == msg.type \in {"TRANSFORM_RESULTS", "SKIN_RESULTS", "LIGHTING_RESULTS"}

\* the registry _invokeAllCallbacks consults for a result
RegistryOf(type) ==
    CASE type = "TRANSFORM_RESULTS" -> meshRegistry
      [] type = "SKIN_RESULTS" -> skinnedMeshRegistry
      [] type = "LIGHTING_RESULTS" -> staticLightingRegistry

\* _invokeAllCallbacks: the callbacks called for the collected results
Invoked(results) ==
    {[kind |-> results[i].type, meshId |-> results[i].meshIds[j],
      flush |-> results[i].flush,
      callback |-> RegistryOf(results[i].type)[results[i].meshIds[j]].callback] :
        <<i, j>> \in {<<i, j>> \in (1..Len(results)) \X (1..MaxPending * (MaxMeshId + 1)) :
                        /\ j <= Len(results[i].meshIds)
                        /\ RegistryOf(results[i].type)[results[i].meshIds[j]] # NoReg}}

\* _invokeAllCallbacks: the results dropped because `registration` is undefined
Skipped(results) ==
    {[kind |-> results[i].type, meshId |-> results[i].meshIds[j], flush |-> results[i].flush] :
        <<i, j>> \in {<<i, j>> \in (1..Len(results)) \X (1..MaxPending * (MaxMeshId + 1)) :
                        /\ j <= Len(results[i].meshIds)
                        /\ RegistryOf(results[i].type)[results[i].meshIds[j]] = NoReg}}

\* _handleMessage(msg) followed by _checkFlushComplete() and, when the count
\* reaches zero, _invokeAllCallbacks() and the resolution of every waiting flush
HandleMessage(w) ==
    /\ w \in running
    /\ outbox[w] # <<>>
    /\ outbox' = [outbox EXCEPT ![w] = Tail(@)]
    /\ IF IsCollectable(Head(outbox[w]))
         THEN /\ pendingResponses' = pendingResponses - 1
              /\ IF pendingResponses - 1 = 0
                   THEN /\ obs' = [NoObs EXCEPT
                               !.invoked = Invoked(Append(pendingResults, Head(outbox[w]))),
                               !.skipped = Skipped(Append(pendingResults, Head(outbox[w])))]
                        /\ pendingResults' = <<>>
                        /\ resolved' = resolved \cup Range(flushResolvers)
                        /\ flushResolvers' = <<>>
                   ELSE /\ pendingResults' = Append(pendingResults, Head(outbox[w]))
                        /\ obs' = NoObs
                        /\ UNCHANGED <<resolved, flushResolvers>>
         ELSE /\ obs' = NoObs
              /\ UNCHANGED <<pendingResponses, pendingResults, resolved, flushResolvers>>
    /\ UNCHANGED <<env, sharedVars, disposed, workerCount, running, nextWorkerIndex, inbox,
                   nextFlush, outstanding, registrations, live, unanswered>>
    /\ KeepRegistries
    /\ KeepPending
    /\ KeepCaches

\* ---------------------------------------------------------------- specification
Next ==
    \/ Acquire /\ Keep("pool")
    \/ Release /\ Keep("pool")
    \/ ScheduleFlush /\ Keep("pool")
    \/ FlushIfPending /\ Keep("pool")
    \/ Flush /\ Keep("pool")
    \/ \E meshId \in MeshIds : RegisterMesh(meshId) /\ Keep("pool")
    \/ \E meshId \in MeshIds : RegisterSkinnedMesh(meshId) /\ Keep("pool")
    \/ \E meshId \in MeshIds : RegisterStaticMeshForLighting(meshId) /\ Keep("pool")
    \/ \E meshId \in MeshIds : UnregisterMesh(meshId) /\ Keep("pool")
    \/ \E meshId \in MeshIds : QueueTransform(meshId) /\ Keep("pool")
    \/ \E meshIds \in IdLists, lc \in SkinLightConfigs : QueueSkinning(meshIds, lc) /\ Keep("pool")
    \/ \E meshIds \in IdLists, lc \in StaticLightConfigs : QueueStaticLighting(meshIds, lc) /\ Keep("pool")
    \/ \E w \in Workers : WorkerStep(w) /\ Keep("pool")
    \/ \E w \in Workers : HandleMessage(w) /\ Keep("pool")

Spec == Init /\ [][Next]_vars

\* Workers keep handling their queues and the event loop of the orchestrating
\* thread keeps delivering the responses
AllWorkers == 0..(DefaultWorkerCount(MaxHardwareConcurrency) - 1)

Fairness ==
    /\ \A w \in AllWorkers : WF_vars(WorkerStep(w) /\ Keep("pool"))
    /\ \A w \in AllWorkers : WF_vars(HandleMessage(w) /\ Keep("pool"))

\* the workloads in which flushes can overlap
LiveInit == Init /\ env.flushes = MaxFlush

LiveSpec == LiveInit /\ [][Next]_vars /\ Fairness

TypeOK ==
    /\ instance \in BOOLEAN
    /\ refCount \in 0..MaxRefs
    /\ nextWorkerIndex \in 0..MaxPoolWorkers
    /\ running \subseteq Workers

\* ---------------------------------------------------------------- pool size
\* the workload of a specification that makes no call on the shared pool
NoWorkload == [hardwareConcurrency |-> 0, registrations |-> 0, flushes |-> 0, pending |-> 0,
               refs |-> 0]

PoolFrame == UNCHANGED <<env, sharedVars, poolVars, workerVars, historyVars>>

WorkerCountArgs == (-1)..MaxWorkerArg
CoreCounts == 0..MaxCores

\* constructor: `Math.min(workerCount ?? defaultCount, 8)` with
\* `defaultCount = Math.max(1, (navigator.hardwareConcurrency || 4) - 1)`
PoolWorkerCount(given, arg, hc) ==
    IF given THEN Min(arg, MaxPoolWorkers) ELSE DefaultWorkerCount(hc)

\* _initWorkers: `for (let i = 0; i < this._workerCount; i++)` pushes one Worker a turn
WorkersCreated(n) == Max(0, n)

\* new TransformWorkerPool(workerCount) / new TransformWorkerPool()
ConstructSized ==
    /\ ~sizing.built
    /\ sizing' = [sizing EXCEPT
           !.built = TRUE,
           !.workerCount = PoolWorkerCount(sizing.given, sizing.arg, sizing.hc),
           !.workers = WorkersCreated(PoolWorkerCount(sizing.given, sizing.arg, sizing.hc))]
    /\ PoolFrame
    /\ Keep("sizing")

SizingInit ==
    /\ env = NoWorkload
    /\ PoolInit
    /\ Idle("sizing")
    /\ sizing \in {[given |-> g, arg |-> a, hc |-> h, built |-> FALSE, workerCount |-> 0,
                    workers |-> 0] :
                      g \in BOOLEAN, a \in WorkerCountArgs, h \in CoreCounts}

SizingNext == ConstructSized

SizingSpec == SizingInit /\ [][SizingNext]_vars

\* ---------------------------------------------------------------- GltfModel and the shared pool
\* The model under study has one non-skinned mesh without normals, with id 0;
\* other models may hold references to the shared pool as well.
ModelMesh == 0
Matrices == 1..MaxMatrix

ModelWorkload == [hardwareConcurrency |-> 2, registrations |-> MaxRegistrations,
                  flushes |-> MaxFlush, pending |-> MaxPending, refs |-> MaxRefs]

\* `new TransformWorkerPool()` inside SharedWorkerPool.acquire() can throw
\* (Blob, URL.createObjectURL, Worker); acquire() of an existing pool cannot
AcquireOutcomes == IF instance THEN {TRUE} ELSE BOOLEAN

\* the try block of _setupWorkerPool / setWorkersEnabled(true) when acquire()
\* returns: the reference is taken and mesh.registerWithPool(pool) runs, which
\* registers the mesh unless its _isRegisteredWithPool flag is set
SetupSucceeds ==
    LET fresh == ~instance
        n == IF fresh THEN DefaultWorkerCount(env.hardwareConcurrency) ELSE workerCount
        idx == IF fresh THEN 0 ELSE nextWorkerIndex
        doReg == ~gltfModel.registered
        number == (IF fresh THEN 0 ELSE registrations) + 1
    IN /\ refCount < env.refs
       /\ instance' = TRUE
       /\ refCount' = refCount + 1
       /\ disposed' = FALSE
       /\ workerCount' = n
       /\ running' = 0..(n - 1)
       /\ meshRegistry' =
              IF doReg
                THEN [(IF fresh THEN EmptyRegistry ELSE meshRegistry) EXCEPT ![ModelMesh] =
                         [workerIndex |-> idx, callback |-> number, hasNormals |-> FALSE]]
                ELSE IF fresh THEN EmptyRegistry ELSE meshRegistry
       /\ inbox' =
              IF doReg
                THEN [(IF fresh THEN EmptyQueues(n) ELSE inbox) EXCEPT ![idx] =
                         Append(@, Msg("REGISTER", <<ModelMesh>>, FALSE, "none", 0, {}))]
                ELSE IF fresh THEN EmptyQueues(n) ELSE inbox
       /\ nextWorkerIndex' = IF doReg THEN (idx + 1) % n ELSE idx
       /\ registrations' = IF doReg THEN number ELSE number - 1
       /\ live' = (IF fresh THEN {} ELSE live)
                  \cup (IF doReg THEN {Callback(number, ModelMesh)} ELSE {})
       /\ IF fresh
            THEN /\ skinnedMeshRegistry' = EmptyRegistry
                 /\ staticLightingRegistry' = EmptyRegistry
                 /\ pendingByWorker' = EmptyQueues(n)
                 /\ pendingSkinByWorker' = EmptyQueues(n)
                 /\ pendingLightingByWorker' = EmptyQueues(n)
                 /\ flushResolvers' = <<>>
                 /\ pendingResponses' = 0
                 /\ pendingResults' = <<>>
                 /\ outbox' = EmptyQueues(n)
                 /\ meshCache' = EmptyCaches(n)
                 /\ skinnedMeshCache' = EmptySkinCaches(n)
                 /\ staticLightingCache' = EmptyCaches(n)
                 /\ nextFlush' = 1
                 /\ outstanding' = [f \in FlushIds |-> 0]
                 /\ resolved' = {}
                 /\ unanswered' = 0
            ELSE UNCHANGED <<skinnedMeshRegistry, staticLightingRegistry, pendingByWorker,
                             pendingSkinByWorker, pendingLightingByWorker, flushResolvers,
                             pendingResponses, pendingResults, outbox, meshCache,
                             skinnedMeshCache, staticLightingCache, nextFlush, outstanding,
                             resolved, unanswered>>
       /\ obs' = NoObs
       /\ UNCHANGED <<env, flushScheduled>>
       /\ gltfModel' = [gltfModel EXCEPT
              !.loaded = TRUE, !.workerPool = TRUE, !.useWorkers = TRUE,
              !.meshPool = @ \/ doReg, !.registered = TRUE,
              !.path = "none", !.acquireFailed = FALSE, !.threw = FALSE]

\* the catch clause: acquire() threw before `this._workerPool = ...` was assigned
SetupFails ==
    /\ gltfModel' = [gltfModel EXCEPT
           !.loaded = TRUE, !.useWorkers = FALSE, !.workerPool = FALSE,
           !.path = "none", !.acquireFailed = TRUE, !.threw = FALSE]
    /\ PoolFrame

\* GltfModel.load() from its call of _setupWorkerPool() on; `useWorkersOption`
\* is options.useWorkers !== false
Load(useWorkersOption, ok) ==
    /\ ~gltfModel.loaded
    /\ IF ~useWorkersOption
         THEN /\ gltfModel' = [gltfModel EXCEPT !.loaded = TRUE, !.useWorkers = FALSE]
              /\ PoolFrame
         ELSE IF ok THEN SetupSucceeds ELSE SetupFails
    /\ Keep("model")

\* GltfModel.setWorkersEnabled(enabled) on a loaded model, when enabled differs
\* from _useWorkers
SetWorkersEnabled(enabled, ok) ==
    /\ gltfModel.loaded
    /\ enabled # gltfModel.useWorkers
    /\ IF ~enabled
         THEN /\ IF gltfModel.workerPool THEN Release ELSE PoolFrame
              /\ gltfModel' = [gltfModel EXCEPT !.workerPool = FALSE, !.useWorkers = FALSE]
         ELSE IF ok THEN SetupSucceeds ELSE SetupFails
    /\ Keep("model")

\* updateTransform: `this._workerPool && this._useWorkers`
AlwaysWorkers(m) == TRUE
UsesWorkers(m) == m.workerPool /\ m.useWorkers

\* GltfModel.updateTransform(matrix) on a loaded model
UpdateTransform(matrix) ==
    /\ gltfModel.loaded
    /\ IF gltfModel.lastMatrix = matrix
         THEN /\ gltfModel' = [gltfModel EXCEPT !.path = "clean"]
              /\ PoolFrame
         ELSE IF UsesWorkers(gltfModel)
           THEN /\ TotalPending < env.pending
                /\ gltfModel' = [gltfModel EXCEPT !.lastMatrix = matrix, !.path = "workers"]
                /\ pendingByWorker' =
                       IF gltfModel.meshPool /\ gltfModel.registered /\ ~disposed
                          /\ meshRegistry[ModelMesh] # NoReg
                         THEN [pendingByWorker EXCEPT
                                 ![TargetWorker(meshRegistry[ModelMesh])] =
                                     Append(@, Request(<<ModelMesh>>, "none"))]
                         ELSE pendingByWorker
                /\ flushScheduled' = (instance \/ flushScheduled)
                /\ obs' = NoObs
                /\ UNCHANGED <<env, instance, refCount, disposed, workerCount, running,
                               flushResolvers, pendingResponses, pendingResults,
                               nextWorkerIndex, pendingSkinByWorker, pendingLightingByWorker,
                               workerVars>>
                /\ KeepRegistries
                /\ KeepHistory
           ELSE /\ gltfModel' = [gltfModel EXCEPT !.lastMatrix = matrix, !.path = "sync"]
                /\ PoolFrame
    /\ Keep("model")

\* another model takes or gives back a reference of its own
OtherAcquire == Acquire /\ Keep("pool")
OtherRelease ==
    /\ refCount > (IF gltfModel.workerPool THEN 1 ELSE 0)
    /\ Release
    /\ Keep("pool")

ModelInit ==
    /\ env = ModelWorkload
    /\ PoolInit
    /\ Idle("pool")

ModelNext ==
    \/ \E opt \in BOOLEAN, ok \in AcquireOutcomes : Load(opt, ok)
    \/ \E enabled \in BOOLEAN, ok \in AcquireOutcomes : SetWorkersEnabled(enabled, ok)
    \/ \E matrix \in Matrices : UpdateTransform(matrix)
    \/ OtherAcquire
    \/ OtherRelease
    \/ FlushIfPending /\ Keep("pool")
    \/ \E w \in Workers : WorkerStep(w) /\ Keep("pool")
    \/ \E w \in Workers : HandleMessage(w) /\ Keep("pool")

ModelSpec == ModelInit /\ [][ModelNext]_vars

\* ---------------------------------------------------------------- packed responses
\* One batch whose meshes are all cached and registered.  A packed buffer is
\* a sequence of cells; a cell records which mesh of the batch the worker
\* laid it out for and which element of that mesh's result it is.  Cells a
\* worker leaves at the zero the typed array was created with are `written = FALSE`.
Cell(i, k, w) == [mesh |-> i, k |-> k, written |-> w]

RECURSIVE SeqsUpTo(_, _)
SeqsUpTo(S, n) ==
    IF n = 0 THEN {<<>>}
    ELSE SeqsUpTo(S, n - 1) \cup {Append(q, x) : q \in {r \in SeqsUpTo(S, n - 1) : Len(r) = n - 1}, x \in S}

BatchEntries(normalsChoice) ==
    SeqsUpTo({[vertexCount |-> v, normals |-> b] : v \in 1..MaxVertices, b \in normalsChoice},
             MaxBatchMeshes)

\* entry.floatCount of REGISTER / REGISTER_SKIN: positions.length = 3 * vertexCount
FloatCount(entry) == 3 * entry.vertexCount

\* how far a batch moves its offset per mesh: `offset += entry.floatCount`,
\* in LIGHTING_BATCH `colorOffset += entry.vertexCount * 4`
Stride(type, entry) == IF type = "LIGHTING_BATCH" THEN 4 * entry.vertexCount ELSE FloatCount(entry)

\* the running offset before mesh i (1-based) of the batch
RECURSIVE OffsetBefore(_, _, _)
OffsetBefore(type, entries, i) ==
    IF i = 1 THEN 0 ELSE OffsetBefore(type, entries, i - 1) + Stride(type, entries[i - 1])

\* `offsets[i] = offset` for every mesh and `offsets[meshEntries.length] = offset`;
\* an empty batch answers `new Uint32Array(1)`
PackedOffsets(type, entries) ==
    [i \in 1..(Len(entries) + 1) |-> ToUint32(OffsetBefore(type, entries, i))]

\* a buffer in which mesh i owns perVertex cells a vertex, laid out mesh after mesh
RECURSIVE PackedBuffer(_, _, _, _)
PackedBuffer(entries, i, perVertex, writes) ==
    IF i > Len(entries) THEN <<>>
    ELSE [k \in 1..(perVertex * entries[i].vertexCount) |-> Cell(i, k, writes[i])]
         \o PackedBuffer(entries, i + 1, perVertex, writes)

AnyNormals(entries) == \E i \in 1..Len(entries) : entries[i].normals

\* TRANSFORM_BATCH, SKIN_BATCH or LIGHTING_BATCH, from the allocation of the
\* packed buffers to postMessage
WorkerPack ==
    LET e == packing.entries
        all == [i \in 1..Len(e) |-> TRUE]
        withNormals == [i \in 1..Len(e) |-> e[i].normals]
        skin == packing.type = "SKIN_BATCH"
        staticLighting == packing.type = "LIGHTING_BATCH"
        packedNormals == skin /\ AnyNormals(e)
        packedColors == staticLighting \/ (skin /\ packing.lit /\ AnyNormals(e))
    IN /\ packing.stage = "batch"
       /\ packing' = [packing EXCEPT
              !.stage = "response",
              !.offsets = PackedOffsets(packing.type, e),
              !.positions = IF staticLighting THEN <<>> ELSE PackedBuffer(e, 1, 3, all),
              !.hasNormals = packedNormals,
              !.normals = IF packedNormals THEN PackedBuffer(e, 1, 3, withNormals) ELSE <<>>,
              !.hasColors = packedColors,
              !.colors = IF staticLighting THEN PackedBuffer(e, 1, 4, all)
                         ELSE IF packedColors THEN PackedBuffer(e, 1, 4, withNormals)
                         ELSE <<>>]
       /\ PoolFrame
       /\ Keep("packing")

\* TypedArray.subarray(start, end)
Subarray(buffer, start, end) ==
    [k \in 1..(Min(end, Len(buffer)) - Min(start, Len(buffer))) |->
        buffer[Min(start, Len(buffer)) + k]]

\* _invokeAllCallbacks, skinning branch: `colorOffset += vertexCount * 4` with
\* `vertexCount = (end - start) / 3`, summed over the meshes before mesh i
SkinColorStartFromOffsets(offsets, i) == offsets[i]
RECURSIVE SkinColorStart(_, _)
SkinColorStart(offsets, i) ==
    IF i = 1 THEN 0
    ELSE SkinColorStart(offsets, i - 1) + ((offsets[i] - offsets[i - 1]) \div 3) * 4

\* what _invokeAllCallbacks passes to the callback of mesh i of the response
\* (<<>> stands for null and for an argument the callback does not take)
SliceFor(i) ==
    LET start == packing.offsets[i]
        end == packing.offsets[i + 1]
        vertexCount == (end - start) \div 3
        colorStart == SkinColorStart(packing.offsets, i)
    IN CASE packing.type = "LIGHTING_BATCH" ->
              [positions |-> <<>>, normals |-> <<>>,
               colors |-> Subarray(packing.colors, start, end)]
         [] packing.type = "SKIN_BATCH" ->
              [positions |-> Subarray(packing.positions, start, end),
               normals |-> IF packing.hasNormals /\ packing.entries[i].normals
                             THEN Subarray(packing.normals, start, end) ELSE <<>>,
               colors |-> IF packing.hasColors
                            THEN Subarray(packing.colors, colorStart, colorStart + vertexCount * 4)
                            ELSE <<>>]
         [] OTHER ->
              [positions |-> Subarray(packing.positions, start, end),
               normals |-> <<>>, colors |-> <<>>]

\* _invokeAllCallbacks for the response, every mesh of it being registered
DeliverSlices ==
    /\ packing.stage = "response"
    /\ packing' = [packing EXCEPT
           !.stage = "delivered",
           !.delivered = [i \in 1..Len(packing.entries) |-> SliceFor(i)]]
    /\ PoolFrame
    /\ Keep("packing")

PackingInit ==
    /\ env = NoWorkload
    /\ PoolInit
    /\ Idle("packing")
    /\ \E type \in BatchTypes :
         \E e \in BatchEntries(IF type = "SKIN_BATCH" THEN BOOLEAN
                               ELSE IF type = "LIGHTING_BATCH" THEN {TRUE} ELSE {FALSE}) :
           \E lit \in (IF type = "SKIN_BATCH" THEN BOOLEAN
                       ELSE IF type = "LIGHTING_BATCH" THEN {TRUE} ELSE {FALSE}) :
             packing = [NoPacking EXCEPT !.type = type, !.entries = e, !.lit = lit,
                                         !.stage = "batch"]

PackingNext == WorkerPack \/ DeliverSlices

PackingSpec == PackingInit /\ [][PackingNext]_vars

\* ---------------------------------------------------------------- lighting snapshots
\* Lighting (the registry), _buildLightConfig (the snapshot), the pool's
\* queueSkinning / queueStaticLighting / flush and the worker's SKIN_BATCH /
\* LIGHTING_BATCH.  Directional lights stand for spot lights too: the snapshot
\* copies both the same way.  A light has one Float32Array (color), written in
\* place by its setter, and one scalar (intensity).
LightValues == 0..MaxLightValue
AmbientRef == MaxLights          \* names the gltfAmbientLight array; lights are named by id

\* the Float32Array an array name stands for, as it is now
ReadFloats(ref) ==
    IF ref = AmbientRef THEN lighting.ambient ELSE lighting.objects[ref + 1].color

\* a Float32Array held by a light config: its own buffer (ref = -1) with the
\* floats it holds, or the very array `ref` of the registry
ShareFloats(ref, floats) == [ref |-> ref, value |-> 0]

\* new Float32Array(source): a buffer of its own, holding the floats of now
CopyFloats(ref, floats) == [ref |-> -1, value |-> floats]

FloatsOf(array) == IF array.ref = -1 THEN array.value ELSE ReadFloats(array.ref)

NoLightValues == [defined |-> FALSE, ambient |-> 0, lights |-> <<>>, hemisphere |-> FALSE]

\* what the registry holds now: ambient, the lights in array order, hemisphere
RegistryValues ==
    [defined |-> TRUE,
     ambient |-> lighting.ambient,
     lights |-> [i \in 1..Len(lighting.lights) |->
                    [color |-> lighting.objects[lighting.lights[i] + 1].color,
                     intensity |-> lighting.objects[lighting.lights[i] + 1].intensity]],
     hemisphere |-> lighting.hemisphere]

\* _buildLightConfig(): undefined without any light and with the hemisphere
\* light disabled, else a config with a copy of every array and scalar
BuildLightConfig ==
    IF Len(lighting.lights) = 0 /\ ~lighting.hemisphere
    THEN [defined |-> FALSE, ambient |-> CopyFloats(AmbientRef, 0), lights |-> <<>>,
          hemisphere |-> FALSE]
    ELSE [defined |-> TRUE,
          ambient |-> CopyFloats(AmbientRef, lighting.ambient),
          lights |-> [i \in 1..Len(lighting.lights) |->
                         [color |-> CopyFloats(lighting.lights[i],
                                               lighting.objects[lighting.lights[i] + 1].color),
                          intensity |-> lighting.objects[lighting.lights[i] + 1].intensity]],
          hemisphere |-> lighting.hemisphere]

\* postMessage: the structured clone of a light config holds the floats its
\* arrays hold when the message is posted
StructuredClone(config) ==
    IF ~config.defined THEN NoLightValues
    ELSE [defined |-> TRUE,
          ambient |-> FloatsOf(config.ambient),
          lights |-> [i \in 1..Len(config.lights) |->
                         [color |-> FloatsOf(config.lights[i].color),
                          intensity |-> config.lights[i].intensity]],
          hemisphere |-> config.hemisphere]

\* history: every request not yet computed saw the registry change at its stage
Touch(requests) ==
    [i \in 1..Len(requests) |->
        IF requests[i].stage = "computed" THEN requests[i]
        ELSE [requests[i] EXCEPT !.touched = @ \cup {requests[i].stage}]]

RegistryFrame == PoolFrame /\ Keep("lighting")

\* Lighting.createDirectionalLight(): id = gltfLightIdCounter++, color (1,1,1),
\* intensity 1.0, pushed on gltfLights
CreateDirectionalLight ==
    /\ Len(lighting.objects) < MaxLights
    /\ lighting' = [lighting EXCEPT
                       !.objects = Append(@, [color |-> MaxLightValue,
                                              intensity |-> MaxLightValue]),
                       !.lights = Append(@, Len(lighting.objects)),
                       !.requests = Touch(@)]
    /\ RegistryFrame

\* Lighting.removeLight(id): splice the light out of gltfLights, if it is there
RemoveLight(id) ==
    /\ id \in Range(lighting.lights)
    /\ lighting' = [lighting EXCEPT
                       !.lights = SelectSeq(@, LAMBDA l : l # id),
                       !.requests = Touch(@)]
    /\ RegistryFrame

\* Lighting.setLightColor(id, r, g, b): writes into light.color
SetLightColor(id, c) ==
    /\ id \in Range(lighting.lights)
    /\ lighting' = [lighting EXCEPT !.objects[id + 1].color = c, !.requests = Touch(@)]
    /\ RegistryFrame

\* Lighting.setLightIntensity(id, intensity)
SetLightIntensity(id, v) ==
    /\ id \in Range(lighting.lights)
    /\ lighting.objects[id + 1].intensity # v
    /\ lighting' = [lighting EXCEPT !.objects[id + 1].intensity = Max(0, v),
                                    !.requests = Touch(@)]
    /\ RegistryFrame

\* Lighting.setAmbientLight(r, g, b): writes into gltfAmbientLight
SetAmbientLight(c) ==
    /\ lighting' = [lighting EXCEPT !.ambient = c, !.requests = Touch(@)]
    /\ RegistryFrame

\* Lighting.setHemisphereLightEnabled(enabled)
SetHemisphereLightEnabled(enabled) ==
    /\ lighting.hemisphere # enabled
    /\ lighting' = [lighting EXCEPT !.hemisphere = enabled, !.requests = Touch(@)]
    /\ RegistryFrame

LightRequest(kind, config) ==
    [kind |-> kind, config |-> config, at |-> RegistryValues, stage |-> "queued",
     message |-> NoLightValues, used |-> NoLightValues, lit |-> FALSE, touched |-> {}]

\* _updateSkinnedMeshes(): build the snapshot and queue skinning with it, also
\* when it is undefined; the pool keeps the config object in the request
UpdateSkinnedMeshes ==
    /\ Len(lighting.requests) < MaxLightRequests
    /\ lighting' = [lighting EXCEPT !.requests = Append(@, LightRequest("skin", BuildLightConfig))]
    /\ RegistryFrame

\* _applyLightingToAllMeshes(): build the snapshot and queue static lighting
\* with it, unless it is undefined
ApplyLightingToAllMeshes ==
    /\ Len(lighting.requests) < MaxLightRequests
    /\ BuildLightConfig.defined
    /\ lighting' = [lighting EXCEPT
                       !.requests = Append(@, LightRequest("lighting", BuildLightConfig))]
    /\ RegistryFrame

\* flush(): one SKIN_BATCH / LIGHTING_BATCH message per pending request, each
\* with the request's lightConfig, and the pending lists are cleared
FlushLightRequests ==
    /\ \E i \in 1..Len(lighting.requests) : lighting.requests[i].stage = "queued"
    /\ LET pending == lighting.requests IN
       lighting' = [lighting EXCEPT !.requests =
           [i \in 1..Len(pending) |->
               IF pending[i].stage = "queued"
               THEN [pending[i] EXCEPT !.stage = "posted",
                                       !.message = StructuredClone(pending[i].config)]
               ELSE pending[i]]]
    /\ RegistryFrame

\* SKIN_BATCH / LIGHTING_BATCH in the worker: calculateLighting reads
\* msg.lightConfig; a skin batch without a config computes no colours
ComputeLighting(i) ==
    /\ i \in 1..Len(lighting.requests)
    /\ lighting.requests[i].stage = "posted"
    /\ \A j \in 1..(i - 1) : lighting.requests[j].stage # "posted"
    /\ LET msg == lighting.requests[i].message IN
       lighting' = [lighting EXCEPT !.requests[i] =
           [@ EXCEPT !.stage = "computed", !.lit = msg.defined, !.used = msg]]
    /\ RegistryFrame

LightingInit ==
    /\ env = NoWorkload
    /\ PoolInit
    /\ Idle("lighting")
    /\ lighting = NoLighting

LightingNext ==
    \/ CreateDirectionalLight
    \/ \E id \in 0..(MaxLights - 1) : RemoveLight(id)
    \/ \E id \in 0..(MaxLights - 1), c \in LightValues : SetLightColor(id, c)
    \/ \E id \in 0..(MaxLights - 1), v \in LightValues : SetLightIntensity(id, v)
    \/ \E c \in LightValues : SetAmbientLight(c)
    \/ \E enabled \in BOOLEAN : SetHemisphereLightEnabled(enabled)
    \/ UpdateSkinnedMeshes
    \/ ApplyLightingToAllMeshes
    \/ FlushLightRequests
    \/ \E i \in 1..MaxLightRequests : ComputeLighting(i)

LightingSpec == LightingInit /\ [][LightingNext]_vars

\* ---------------------------------------------------------------- AnimationController
\* Times are whole ticks.  A joint's local transform is abstracted to where it
\* came from: the bind pose, or a channel of a clip sampled at a time.
\* _activeChannels is always the channel cache of _currentAnimation (both are
\* assigned together in _playAnimation), so it is derived from `current`.

\* options.animations as GltfModel._extractAnimations delivers them: a clip
\* has a name ("(unnamed animation)" when the glTF animation has none), a
\* duration and channels, each naming its target joint (-1: not a joint)
Clips ==
    << [name |-> "Walk", duration |-> 2, channels |-> {0, -1}],
       [name |-> "Idle", duration |-> 0, channels |-> {1}],
       [name |-> "(unnamed animation)", duration |-> 3, channels |-> {0}],
       [name |-> "(unnamed animation)", duration |-> 2, channels |-> {1}] >>

ClipNames == {Clips[c].name : c \in 1..Len(Clips)} \cup {"Missing"}
ClipIndices == (-1)..Len(Clips)
Deltas == 0..MaxDelta
Rates == (-MaxRate)..MaxRate
StartTimes == (-1)..MaxStart

AnimFrame == PoolFrame /\ Keep("anim")

Call(op, name, index, arg) == [op |-> op, name |-> name, index |-> index, arg |-> arg]

AnimationMapOrLast(name) ==
    LET named == {c \in 1..Len(Clips) : Clips[c].name = name} IN
    IF named = {} THEN Len(Clips) ELSE CHOOSE c \in named : \A d \in named : d <= c

\* _animationMap.get(name): the constructor's Map.set keeps the last clip of
\* each name; 0 stands for undefined
AnimationMap(name) ==
    LET named == {c \in 1..Len(Clips) : Clips[c].name = name} IN
    IF named = {} THEN 0 ELSE CHOOSE c \in named : \A d \in named : d <= c

\* _cacheActiveChannels: the joints targeted by the channels kept
ActiveJoints(c) == {j \in Clips[c].channels : ~(j < 0 \/ j >= MaxJoint + 1)}

\* _resetToBindPose
ResetToBindPose == [j \in Joints |-> BindTransform]

\* _sampleChannel with keyframes at 0 and at the clip's duration: the time is
\* held at the first keyframe before it and at the last keyframe after it
SampleChannel(c, time) == [clip |-> c, at |-> Max(0, Min(time, Clips[c].duration))]

\* _evaluateAnimation: every active channel writes its joint, the other joints
\* keep what they hold
EvaluateAnimation(transforms, c, time) ==
    [j \in Joints |-> IF j \in ActiveJoints(c) THEN SampleChannel(c, time) ELSE transforms[j]]

\* _computeJointWorldMatrices and _computeBoneMatrices: functions of the
\* joint transforms
ComputeBoneMatrices(transforms) == [j \in Joints |-> [of |-> transforms[j]]]

\* _playAnimation
PlayAnimation(a, c, name, startTime) ==
    LET isNewAnimation == IF a.current = 0 THEN TRUE ELSE Clips[a.current].name # name
        time == Max(0, Min(startTime, Clips[c].duration))
        transforms == EvaluateAnimation(IF isNewAnimation THEN ResetToBindPose
                                        ELSE a.jointTransforms, c, time)
    IN [a EXCEPT !.current = c, !.time = time, !.isPlaying = TRUE, !.isPaused = FALSE,
                 !.jointTransforms = transforms,
                 !.boneMatrices = ComputeBoneMatrices(transforms),
                 !.completions = 0,
                 !.elapsed = [valid |-> startTime = 0 /\ Clips[c].duration > 0, total |-> 0]]

\* play(name, startTime)
Play(name, startTime) ==
    /\ LET c == AnimationMap(name)
           a == [anim EXCEPT !.call = Call("play", name, 0, startTime), !.fired = 0]
       IN anim' = IF c = 0 THEN a ELSE PlayAnimation(a, c, name, startTime)
    /\ AnimFrame

\* playByIndex(index, startTime); index counts from 0
PlayByIndex(index, startTime) ==
    /\ LET a == [anim EXCEPT !.call = Call("playByIndex", "", index, startTime), !.fired = 0]
       IN anim' = IF index < 0 \/ index >= Len(Clips) THEN a
                  ELSE PlayAnimation(a, index + 1, Clips[index + 1].name, startTime)
    /\ AnimFrame

StopKeepingPause(a) == [a EXCEPT !.isPlaying = FALSE]

\* stop(): both flags cleared
StopFlags(a) == [a EXCEPT !.isPlaying = FALSE, !.isPaused = FALSE]

NotTracked == [valid |-> FALSE, total |-> 0]

Stop ==
    /\ anim' = [StopFlags(anim) EXCEPT !.call = Call("stop", "", 0, 0), !.fired = 0,
                                       !.elapsed = NotTracked]
    /\ AnimFrame

\* pause()
Pause ==
    /\ anim' = [anim EXCEPT !.isPaused = IF anim.isPlaying /\ ~anim.isPaused THEN TRUE ELSE @,
                            !.call = Call("pause", "", 0, 0), !.fired = 0,
                            !.elapsed = NotTracked]
    /\ AnimFrame

\* resume()
Resume ==
    /\ anim' = [anim EXCEPT !.isPaused = IF anim.isPlaying /\ anim.isPaused THEN FALSE ELSE @,
                            !.call = Call("resume", "", 0, 0), !.fired = 0,
                            !.elapsed = NotTracked]
    /\ AnimFrame

\* the looping branch of update(): `while (time >= duration) time -= duration`
\* and then `while (time < 0) time += duration`
RECURSIVE WrapDown(_, _)
WrapDown(time, duration) == IF time >= duration THEN WrapDown(time - duration, duration) ELSE time

RECURSIVE WrapUp(_, _)
WrapUp(time, duration) == IF time < 0 THEN WrapUp(time + duration, duration) ELSE time

WrapOnce(time, duration) ==
    IF time >= duration THEN time - duration ELSE IF time < 0 THEN time + duration ELSE time

WrapTime(time, duration) == WrapUp(WrapDown(time, duration), duration)

FinishStillPlaying(a, time) ==
    [a EXCEPT !.time = time, !.fired = 1, !.completions = Min(@ + 1, MaxCompletions)]

\* the clamping branch of update(): the time is set to the end reached, the
\* playing flag is cleared and onComplete is invoked
Finish(a, time) ==
    [a EXCEPT !.time = time, !.isPlaying = FALSE, !.fired = 1,
              !.completions = Min(@ + 1, MaxCompletions)]

UpdateReturnsUnlessStopped(a) ==
    \/ ~a.isPlaying \/ a.current = 0
    \/ Clips[a.current].duration <= 0

\* the early returns of update()
UpdateReturns(a) ==
    \/ ~a.isPlaying \/ a.isPaused \/ a.current = 0
    \/ Clips[a.current].duration <= 0

\* history: the elapsed time of a looping run started at 0, while it is small
Elapse(a, step) ==
    IF a.elapsed.valid /\ a.loop /\ a.elapsed.total + step \in (-MaxElapsed)..MaxElapsed
    THEN [valid |-> TRUE, total |-> a.elapsed.total + step]
    ELSE NotTracked

\* update(deltaTime)
Update(deltaTime) ==
    /\ LET a == [anim EXCEPT !.call = Call("update", "", 0, deltaTime), !.fired = 0]
           duration == Clips[a.current].duration
           advanced == a.time + deltaTime * a.playbackRate
           timed == IF a.loop THEN [a EXCEPT !.time = WrapTime(advanced, duration)]
                    ELSE IF advanced >= duration THEN Finish(a, duration)
                    ELSE IF advanced < 0 THEN Finish(a, 0)
                    ELSE [a EXCEPT !.time = advanced]
           transforms == EvaluateAnimation(ResetToBindPose, a.current, timed.time)
       IN anim' = IF UpdateReturns(a) THEN a
                  ELSE [timed EXCEPT !.jointTransforms = transforms,
                                     !.boneMatrices = ComputeBoneMatrices(transforms),
                                     !.elapsed = Elapse(a, deltaTime * a.playbackRate)]
    /\ AnimFrame

AfterSetTimeUnclamped(a, time) ==
    LET transforms == EvaluateAnimation(ResetToBindPose, a.current, time)
    IN [a EXCEPT !.time = time, !.jointTransforms = transforms,
                 !.boneMatrices = ComputeBoneMatrices(transforms)]

\* what setTime(time) makes of a controller with a current clip
AfterSetTime(a, time) ==
    LET clamped == Max(0, Min(time, Clips[a.current].duration))
        transforms == EvaluateAnimation(ResetToBindPose, a.current, clamped)
    IN [a EXCEPT !.time = clamped, !.jointTransforms = transforms,
                 !.boneMatrices = ComputeBoneMatrices(transforms)]

\* setTime(time)
SetTime(time) ==
    /\ LET a == [anim EXCEPT !.call = Call("setTime", "", 0, time), !.fired = 0,
                             !.elapsed = NotTracked]
       IN anim' = IF a.current = 0 THEN a ELSE AfterSetTime(a, time)
    /\ AnimFrame

\* the public fields playbackRate and loop
SetPlaybackRate(rate) ==
    /\ anim.playbackRate # rate
    /\ anim' = [anim EXCEPT !.playbackRate = rate, !.call = Call("playbackRate", "", 0, rate),
                            !.fired = 0]
    /\ AnimFrame

SetLoop(loop) ==
    /\ anim.loop # loop
    /\ anim' = [anim EXCEPT !.loop = loop, !.call = Call("loop", "", 0, 0), !.fired = 0]
    /\ AnimFrame

AnimInit ==
    /\ env = NoWorkload
    /\ PoolInit
    /\ Idle("anim")
    /\ anim = NoAnim

AnimNext ==
    \/ \E name \in ClipNames, startTime \in StartTimes : Play(name, startTime)
    \/ \E index \in ClipIndices, startTime \in StartTimes : PlayByIndex(index, startTime)
    \/ Stop
    \/ Pause
    \/ Resume
    \/ \E deltaTime \in Deltas : Update(deltaTime)
    \/ \E time \in StartTimes : SetTime(time)
    \/ \E rate \in Rates : SetPlaybackRate(rate)
    \/ \E loop \in BOOLEAN : SetLoop(loop)

AnimSpec == AnimInit /\ [][AnimNext]_vars

\* ---------------------------------------------------------------- AnimationController / per-mesh queries
\* getSkinnedPositions, getSkinnedNormals, getMeshSkinningData and
\* getOriginalPositions.  A mesh is abstracted to whether it has normals; what
\* a query returns is abstracted to its kind.
MeshLists == UNION {[1..n -> [normals : BOOLEAN]] : n \in 0..MaxAnimMeshes}
MeshIndices == (-1)..(MaxAnimMeshes + 1)
MeshQueries == {"getSkinnedPositions", "getSkinnedNormals", "getMeshSkinningData",
                "getOriginalPositions"}

\* the bounds check each query starts with
InvalidMeshIndex(meshIndex, length) == meshIndex < 0 \/ meshIndex >= length

\* what a query returns for a valid index
QueryValue(op, mesh) ==
    IF op = "getSkinnedNormals" THEN (IF mesh.normals THEN "Float32Array" ELSE "null")
    ELSE IF op = "getMeshSkinningData" THEN "MeshSkinningData"
    ELSE "Float32Array"

\* new AnimationController({ meshes }): _skinnedPositions and _skinnedNormals
\* get one entry per mesh
ConstructController(meshes) ==
    /\ ~queries.built
    /\ queries' = [queries EXCEPT !.built = TRUE, !.meshes = meshes]
    /\ PoolFrame /\ Keep("queries")

\* one of the four queries: `throw new Error("Invalid mesh index: ...")` when
\* the bounds check fails, else the mesh's entry
MeshQuery(op, meshIndex) ==
    /\ queries.built
    /\ queries' =
         IF InvalidMeshIndex(meshIndex, Len(queries.meshes))
         THEN [queries EXCEPT !.op = op, !.meshIndex = meshIndex, !.threw = TRUE,
                              !.returned = "nothing"]
         ELSE [queries EXCEPT !.op = op, !.meshIndex = meshIndex, !.threw = FALSE,
                              !.returned = QueryValue(op, queries.meshes[meshIndex + 1])]
    /\ PoolFrame /\ Keep("queries")

QueryInit ==
    /\ env = NoWorkload
    /\ PoolInit
    /\ Idle("queries")
    /\ queries = NoQueries

QueryNext ==
    \/ \E meshes \in MeshLists : ConstructController(meshes)
    \/ \E op \in MeshQueries, meshIndex \in MeshIndices : MeshQuery(op, meshIndex)

QuerySpec == QueryInit /\ [][QueryNext]_vars

\* ---------------------------------------------------------------- CPU skinning
\* AnimationController._applySkinning (orchestrating thread) and skinMeshInto
\* (WORKER_CODE).  A bone matrix is abstracted to a translation along one axis
\* and a position to one coordinate; a number is a record so that NaN, which
\* arithmetic on `undefined` produces, can be told from every value.
Number(n) == [nan |-> FALSE, value |-> n]
NaN == [nan |-> TRUE, value |-> 0]
Plus(x, y) == IF x.nan \/ y.nan THEN NaN ELSE Number(x.value + y.value)
Times(x, y) == IF x.nan \/ y.nan THEN NaN ELSE Number(x.value * y.value)

\* the skeleton: joints 0..MaxJoint; the bone matrix of joint j moves by j + 1
BoneCount == MaxJoint + 1

\* boneMatrices[jointIdx * 16 + k]: a Float32Array read outside its length is
\* undefined
BoneMatrix(jointIdx) == IF jointIdx \in 0..(BoneCount - 1) THEN Number(jointIdx + 1) ELSE NaN

\* the influences of one vertex: joint indices (unsigned) and weights
Influences ==
    {inf \in [1..InfluencesPerVertex -> [joint : 0..BoneCount, weight : 0..1]] :
        \A j \in (MaxFreeInfluences + 1)..InfluencesPerVertex : inf[j] = [joint |-> 0, weight |-> 0]}

\* the bind-pose coordinate of vertex v
OriginalPosition(v) == Number(v)

\* the inner loop of _applySkinning from influence j on: a zero weight and a
\* joint index not below the joint count are skipped
RECURSIVE MainAccumulate(_, _, _)
MainAccumulate(inf, p, j) ==
    IF j > InfluencesPerVertex THEN Number(0)
    ELSE IF inf[j].weight = 0 THEN MainAccumulate(inf, p, j + 1)
    ELSE IF inf[j].joint >= BoneCount THEN MainAccumulate(inf, p, j + 1)
    ELSE Plus(Times(Plus(p, BoneMatrix(inf[j].joint)), Number(inf[j].weight)),
              MainAccumulate(inf, p, j + 1))

\* the inner loop of skinMeshInto from influence j on: only a zero weight is
\* skipped
RECURSIVE WorkerAccumulate(_, _, _)
WorkerAccumulate(inf, p, j) ==
    IF j > InfluencesPerVertex THEN Number(0)
    ELSE IF inf[j].weight = 0 THEN WorkerAccumulate(inf, p, j + 1)
    ELSE Plus(Times(Plus(p, BoneMatrix(inf[j].joint)), Number(inf[j].weight)),
              WorkerAccumulate(inf, p, j + 1))

\* _applySkinning(meshIndex): every vertex of the mesh
ApplySkinning ==
    /\ skinning.by = "none"
    /\ skinning' = [skinning EXCEPT !.by = "main", !.output =
           [v \in 1..Len(skinning.vertices) |->
               MainAccumulate(skinning.vertices[v], OriginalPosition(v), 1)]]
    /\ PoolFrame /\ Keep("skinning")

\* skinMeshInto(...): every vertex of the mesh
SkinMeshInto ==
    /\ skinning.by = "none"
    /\ skinning' = [skinning EXCEPT !.by = "worker", !.output =
           [v \in 1..Len(skinning.vertices) |->
               WorkerAccumulate(skinning.vertices[v], OriginalPosition(v), 1)]]
    /\ PoolFrame /\ Keep("skinning")

SkinningInit ==
    /\ env = NoWorkload
    /\ PoolInit
    /\ Idle("skinning")
    /\ skinning \in [vertices : [1..MaxSkinVertices -> Influences], by : {"none"},
                     output : {<<>>}]

SkinningNext == ApplySkinning \/ SkinMeshInto

SkinningSpec == SkinningInit /\ [][SkinningNext]_vars

\* ---------------------------------------------------------------- lighting evaluators
\* Lighting.calculateMeshLighting (orchestrating thread) and calculateLighting
\* (WORKER_CODE), for one vertex at the origin.  Geometry is on the z axis: the
\* normal, the direction to a directional light, the direction a spot light
\* shines in and the view direction are +1 or -1; a spot light stands `dist`
\* above the vertex with an outer cone narrower than a right angle, so the
\* vertex is on the cone's axis (inside the inner cone) or outside the outer
\* cone.  Light colours are white with intensity 1.  A colour channel is a
\* whole number of 1/Scale, which holds every attenuation below exactly.
Scale == 80
Ambient == 16        \* gltfAmbientLight = (0.2, 0.2, 0.2)
SkyColor == 64       \* hemisphere sky colour, one value for all channels
GroundColor == 16    \* hemisphere ground colour

ShadingInputs ==
    [nz : {-1, 1}, hemisphere : BOOLEAN,
     directional : {"absent", "disabled", "up", "down"}, dirSpecular : BOOLEAN,
     spot : {"absent", "disabled", "enabled"}, spotDir : {-1, 1},
     dist : 0..MaxDist, range : 0..MaxRange, spotSpecular : BOOLEAN,
     specularIntensity : 0..1, debugBlue : BOOLEAN,
     camera : {"absent", "above", "below"}]

Sign(x) == IF x > 0 THEN 1 ELSE IF x < 0 THEN -1 ELSE 0

\* rangeAtten * rangeAtten with rangeAtten = 1 - (dist / range)^2
RangeAtten(dist, range) ==
    (Scale * (range * range - dist * dist) * (range * range - dist * dist))
        \div (range * range * range * range)

\* 1 / (1 + distSq)
InverseSquareAtten(dist) == Scale \div (1 + dist * dist)

NeverBeyondRange(dist, range) == FALSE

\* `if (dist >= spot.range) continue`, taken when spot.range > 0
BeyondRange(dist, range) == dist >= range

\* outColors[...] = c > 2 ? 2 : c
ClampColor(c) == IF c > 2 * Scale THEN 2 * Scale ELSE c

\* Math.pow(Math.max(0, NdotH), shininess) for NdotH of -1 or 1 and a positive shininess
SpecularPower(NdotH) == IF NdotH > 0 THEN 1 ELSE 0

\* the view direction: normalize(cameraPosition - position), or 0 when
\* specular cannot be done
ViewZ(in, canDoSpecular) ==
    IF ~canDoSpecular THEN 0 ELSE IF in.camera = "above" THEN 1 ELSE -1

\* the hemisphere term: ground and sky blended by (nz + 1) / 2
HemisphereTerm(in) == IF in.nz = 1 THEN SkyColor ELSE GroundColor

\* the loop over the directional lights; the result is what it adds to (r, g, b)
DirectionalTerm(in, canDoSpecular, viewZ) ==
    LET lightDirZ == IF in.directional = "up" THEN 1 ELSE -1
        NdotL == in.nz * lightDirZ
        hz == lightDirZ + viewZ
        NdotH == in.nz * Sign(hz)
        spec == SpecularPower(NdotH) * in.specularIntensity * Scale
        lit == in.directional \in {"up", "down"} /\ NdotL > 0
        shiny == lit /\ canDoSpecular /\ in.dirSpecular /\ hz # 0
    IN [rg |-> (IF lit THEN Scale ELSE 0) + (IF shiny /\ ~in.debugBlue THEN spec ELSE 0),
        b |-> (IF lit THEN Scale ELSE 0)
              + (IF shiny THEN (IF in.debugBlue THEN Scale ELSE spec) ELSE 0)]

\* the loop over the spot lights; `debugStep` is what the debug visualization
\* adds to blue
SpotTerm(in, canDoSpecular, viewZ, debugStep) ==
    LET toVertZ == -1
        cosAngle == in.spotDir * toVertZ
        skipped == \/ in.spot # "enabled"
                   \/ in.dist = 0
                   \/ cosAngle <= 0
                   \/ (in.range > 0 /\ BeyondRange(in.dist, in.range))
        distAtten == IF in.range > 0 THEN RangeAtten(in.dist, in.range)
                     ELSE InverseSquareAtten(in.dist)
        lightDirZ == -toVertZ
        NdotL == in.nz * lightDirZ
        hz == lightDirZ + viewZ
        NdotH == in.nz * Sign(hz)
        spec == SpecularPower(NdotH) * in.specularIntensity * distAtten
        lit == ~skipped /\ NdotL > 0
        shiny == lit /\ canDoSpecular /\ in.spotSpecular /\ hz # 0
    IN [rg |-> (IF lit THEN distAtten ELSE 0) + (IF shiny /\ ~in.debugBlue THEN spec ELSE 0),
        b |-> (IF lit THEN distAtten ELSE 0)
              + (IF shiny THEN (IF in.debugBlue THEN debugStep ELSE spec) ELSE 0)]

Shade(in, canDoSpecular, debugStep) ==
    LET viewZ == ViewZ(in, canDoSpecular)
        hemi == IF in.hemisphere THEN HemisphereTerm(in) ELSE 0
        dir == DirectionalTerm(in, canDoSpecular, viewZ)
        spot == SpotTerm(in, canDoSpecular, viewZ, debugStep)
    IN [done |-> TRUE,
        r |-> ClampColor(Ambient + hemi + dir.rg + spot.rg),
        g |-> ClampColor(Ambient + hemi + dir.rg + spot.rg),
        b |-> ClampColor(Ambient + hemi + dir.b + spot.b),
        a |-> Scale]

\* calculateMeshLighting for the vertex: specular needs a camera position and
\* gltfSpecular.intensity > 0; the spot debug visualization does `b -= 1.0`
MainColor(in) ==
    Shade(in, in.camera # "absent" /\ in.specularIntensity > 0, -Scale)

\* the lightConfig _buildLightConfig hands to the worker: specular and
\* cameraPosition are present only when intensity > 0 or debugBlue is set
ConfigHasSpecular(in) == in.specularIntensity > 0 \/ in.debugBlue

\* calculateLighting for the vertex: specular needs lightConfig.cameraPosition,
\* lightConfig.specular and its intensity > 0; the spot debug visualization
\* does `b += 1.0`
WorkerColor(in) ==
    Shade(in, /\ in.camera # "absent" /\ ConfigHasSpecular(in)
              /\ in.specularIntensity > 0, Scale)

CalculateMeshLighting ==
    /\ ~shading.main.done
    /\ shading' = [shading EXCEPT !.main = MainColor(shading.input)]
    /\ PoolFrame /\ Keep("shading")

CalculateLighting ==
    /\ ~shading.worker.done
    /\ shading' = [shading EXCEPT !.worker = WorkerColor(shading.input)]
    /\ PoolFrame /\ Keep("shading")

ShadingInit ==
    /\ env = NoWorkload
    /\ PoolInit
    /\ Idle("shading")
    /\ shading \in [input : ShadingInputs, main : {NoColor}, worker : {NoColor}]

ShadingNext == CalculateMeshLighting \/ CalculateLighting

ShadingSpec == ShadingInit /\ [][ShadingNext]_vars

\* ---------------------------------------------------------------- Lighting registry
\* The script interface of Lighting: light management, the setters and the
\* dirty version.  Of each kind of setter the guarded ones (they compare with
\* the stored value first) and the unguarded ones are both present.  A cone
\* angle is stored in radians: the degrees times DEG_TO_RAD, a positive
\* constant, which keeps order and NaN; it is written here in units of
\* DEG_TO_RAD.
AngleArgs == {NaN} \cup {Number(n) : n \in 0..MaxAngle}
SettingArgs == (-1)..MaxSetting

\* JavaScript `x < y`: false when either side is NaN
LessThan(x, y) == ~x.nan /\ ~y.nan /\ x.value < y.value

\* JavaScript `x >= y`: false when either side is NaN
AtLeast(x, y) == ~x.nan /\ ~y.nan /\ x.value >= y.value

UnchangedVersion(reg) == reg

\* _markDirty(): gltfLightingVersion++
MarkDirty(reg) == [reg EXCEPT !.version = @ + 1]

SmallestUnusedId(reg) == Len(reg.lights) + Len(reg.spotLights)

\* const id = globalThis.gltfLightIdCounter++ : the id handed out
NextLightId(reg) == reg.idCounter

\* the position in `list` of the light with this id, 0 if none (find / findIndex)
IndexOfLight(list, id) ==
    IF \E i \in 1..Len(list) : list[i].id = id
    THEN CHOOSE i \in 1..Len(list) : list[i].id = id /\ \A k \in 1..(i - 1) : list[k].id # id
    ELSE 0

\* array.splice(index, 1)
Splice(list, index) == [i \in 1..(Len(list) - 1) |-> IF i < index THEN list[i] ELSE list[i + 1]]

\* `if (outerAngleDeg < innerAngleDeg) outerAngleDeg = innerAngleDeg`
ClampOuter(inner, outer) == IF LessThan(outer, inner) THEN inner ELSE outer

RegistryStep(reg) ==
    /\ lightGlobals.version < MaxVersion
    /\ lightGlobals' = reg
    /\ PoolFrame /\ Keep("registry")

\* createDirectionalLight(dirX, dirY, dirZ)
CreateLight ==
    LET id == NextLightId(lightGlobals) IN
    RegistryStep(MarkDirty([lightGlobals EXCEPT
        !.idCounter = @ + 1,
        !.lights = Append(@, [id |-> id, enabled |-> TRUE, intensity |-> 1]),
        !.returned = Append(@, id)]))

\* removeLight(id)
RemoveDirectionalLight(id) ==
    LET index == IndexOfLight(lightGlobals.lights, id) IN
    RegistryStep(IF index = 0 THEN lightGlobals
                 ELSE MarkDirty([lightGlobals EXCEPT !.lights = Splice(@, index)]))

\* removeAllLights()
RemoveAllLights ==
    RegistryStep(MarkDirty([lightGlobals EXCEPT !.lights = <<>>]))

\* setLightEnabled(id, enabled)
SetLightEnabled(id, enabled) ==
    LET index == IndexOfLight(lightGlobals.lights, id) IN
    RegistryStep(IF index # 0 /\ lightGlobals.lights[index].enabled # enabled
                 THEN MarkDirty([lightGlobals EXCEPT !.lights[index].enabled = enabled])
                 ELSE lightGlobals)

\* setLightIntensity(id, intensity) of the lightGlobals's directional lights
SetDirectionalIntensity(id, intensity) ==
    LET index == IndexOfLight(lightGlobals.lights, id) IN
    RegistryStep(IF index # 0 /\ lightGlobals.lights[index].intensity # intensity
                 THEN MarkDirty([lightGlobals EXCEPT !.lights[index].intensity = Max(0, intensity)])
                 ELSE lightGlobals)

\* createSpotLight(..., innerAngleDeg, outerAngleDeg, falloffExponent, range)
CreateSpotLight(inner, outer, range) ==
    LET id == NextLightId(lightGlobals) IN
    RegistryStep(MarkDirty([lightGlobals EXCEPT
        !.idCounter = @ + 1,
        !.spotLights = Append(@, [id |-> id, innerConeAngle |-> inner,
                                  outerConeAngle |-> ClampOuter(inner, outer),
                                  range |-> Max(0, range)]),
        !.returned = Append(@, id)]))

\* removeSpotLight(id)
RemoveSpotLight(id) ==
    LET index == IndexOfLight(lightGlobals.spotLights, id) IN
    RegistryStep(IF index = 0 THEN lightGlobals
                 ELSE MarkDirty([lightGlobals EXCEPT !.spotLights = Splice(@, index)]))

\* setSpotLightConeAngles(id, innerAngleDeg, outerAngleDeg)
SetSpotLightConeAngles(id, inner, outer) ==
    LET index == IndexOfLight(lightGlobals.spotLights, id) IN
    RegistryStep(IF index = 0 THEN lightGlobals
                 ELSE MarkDirty([lightGlobals EXCEPT
                          !.spotLights[index].innerConeAngle = inner,
                          !.spotLights[index].outerConeAngle = ClampOuter(inner, outer)]))

\* setSpotLightRange(id, range)
SetSpotLightRange(id, range) ==
    LET index == IndexOfLight(lightGlobals.spotLights, id) IN
    RegistryStep(IF index = 0 THEN lightGlobals
                 ELSE MarkDirty([lightGlobals EXCEPT !.spotLights[index].range = Max(0, range)]))

\* setAmbientLight(r, g, b) of the lightGlobals
SetAmbient(c) ==
    RegistryStep(MarkDirty([lightGlobals EXCEPT !.ambient = c]))

\* setHemisphereLightEnabled(enabled) of the lightGlobals
SetHemisphereEnabled(enabled) ==
    RegistryStep(IF lightGlobals.hemisphere # enabled
                 THEN MarkDirty([lightGlobals EXCEPT !.hemisphere = enabled])
                 ELSE lightGlobals)

\* setSpecularIntensity(intensity)
SetSpecularIntensity(intensity) ==
    RegistryStep(IF lightGlobals.specularIntensity # intensity
                 THEN MarkDirty([lightGlobals EXCEPT !.specularIntensity = Max(0, intensity)])
                 ELSE lightGlobals)

RegistryInit ==
    /\ env = NoWorkload
    /\ PoolInit
    /\ Idle("registry")
    /\ lightGlobals = NoRegistry

LightIds == 0..(MaxVersion - 1)

RegistryNext ==
    \/ CreateLight
    \/ \E id \in LightIds : RemoveDirectionalLight(id)
    \/ RemoveAllLights
    \/ \E id \in LightIds, enabled \in BOOLEAN : SetLightEnabled(id, enabled)
    \/ \E id \in LightIds, v \in SettingArgs : SetDirectionalIntensity(id, v)
    \/ \E inner \in AngleArgs, outer \in AngleArgs, range \in SettingArgs :
           CreateSpotLight(inner, outer, range)
    \/ \E id \in LightIds : RemoveSpotLight(id)
    \/ \E id \in LightIds, inner \in AngleArgs, outer \in AngleArgs :
           SetSpotLightConeAngles(id, inner, outer)
    \/ \E id \in LightIds, range \in SettingArgs : SetSpotLightRange(id, range)
    \/ \E c \in 0..MaxSetting : SetAmbient(c)
    \/ \E enabled \in BOOLEAN : SetHemisphereEnabled(enabled)
    \/ \E v \in SettingArgs : SetSpecularIntensity(v)

RegistrySpec == RegistryInit /\ [][RegistryNext]_vars

\* ---------------------------------------------------------------- joint world matrices
\* AnimationController._computeJointWorldMatrices.  Joint j of the source is
\* joint j + 1 here and "no parent" (-1) is 0.  A matrix is a word over the
\* transform values and the product of two matrices is the concatenation of
\* their words, which is associative and not commutative as the matrix
\* product is; ZeroMatrix is the content of a freshly allocated Float32Array.
SkinJoints == 1..MaxSkinJoints
Transforms == 1..MaxTransform
ZeroMatrix == <<0>>

\* mat4.multiply(out, a, b)
Multiply(a, b) == IF a = ZeroMatrix \/ b = ZeroMatrix THEN ZeroMatrix ELSE a \o b

\* mat4.fromRotationTranslationScale(_tempMat4A, rotation, translation, scale)
FromRotationTranslationScale(t) == <<t>>

\* the joints above j, j included, following parentIndex at most n times
RECURSIVE Ancestors(_, _, _)
Ancestors(parents, j, n) ==
    IF j = 0 \/ n = 0 THEN {} ELSE {j} \cup Ancestors(parents, parents[j], n - 1)

\* the parent indices _extractSingleSkin can produce: the parent of a joint
\* node in the node tree when that is a joint, so no joint is its own ancestor
Hierarchies ==
    {parents \in [SkinJoints -> 0..MaxSkinJoints] :
        \A j \in SkinJoints : j \notin Ancestors(parents, parents[j], MaxSkinJoints)}

KeepComputed(sk) == sk

\* this._jointComputed.fill(0)
ClearComputed(sk) == [sk EXCEPT !.computed = [j \in SkinJoints |-> FALSE]]

\* _computeJointWorldMatrix(jointIndex)
RECURSIVE ComputeJointWorldMatrix(_, _)
ComputeJointWorldMatrix(sk, j) ==
    IF sk.computed[j] THEN sk
    ELSE IF sk.parents[j] # 0
         THEN LET after == ComputeJointWorldMatrix(sk, sk.parents[j])
                  local == FromRotationTranslationScale(after.transforms[j])
              IN [after EXCEPT !.world[j] = Multiply(after.world[sk.parents[j]], local),
                               !.computed[j] = TRUE]
         ELSE [sk EXCEPT !.world[j] = FromRotationTranslationScale(sk.transforms[j]),
                         !.computed[j] = TRUE]

\* for (let i = 0; i < joints.length; i++) this._computeJointWorldMatrix(i), from joint i on
RECURSIVE ComputeFrom(_, _)
ComputeFrom(sk, i) ==
    IF i > MaxSkinJoints THEN sk ELSE ComputeFrom(ComputeJointWorldMatrix(sk, i), i + 1)

\* _computeJointWorldMatrices()
ComputeJointWorldMatrices(sk) == ComputeFrom(ClearComputed(sk), 1)

\* the controller after construction: buffers allocated, the bind pose
\* (every local transform 1) written and the world matrices computed from it
ConstructSkeleton(parents) ==
    ComputeJointWorldMatrices([parents |-> parents,
                               transforms |-> [j \in SkinJoints |-> 1],
                               world |-> [j \in SkinJoints |-> ZeroMatrix],
                               computed |-> [j \in SkinJoints |-> FALSE]])

\* play / update / setTime / stop: the local transforms are rewritten (bind
\* pose, then the sampled channels), then the world matrices are computed
EvaluatePose(transforms) ==
    /\ skeleton' = ComputeJointWorldMatrices([skeleton EXCEPT !.transforms = transforms])
    /\ PoolFrame /\ Keep("skeleton")

SkeletonInit ==
    /\ env = NoWorkload
    /\ PoolInit
    /\ Idle("skeleton")
    /\ \E parents \in Hierarchies : skeleton = ConstructSkeleton(parents)

SkeletonNext == \E transforms \in [SkinJoints -> Transforms] : EvaluatePose(transforms)

SkeletonSpec == SkeletonInit /\ [][SkeletonNext]_vars

\* ---------------------------------------------------------------- channels and samplers
\* One channel from the glTF document to its evaluation: GltfModel
\* ._extractSingleAnimation builds the sampler, AnimationController
\* ._cacheActiveChannels decides whether the channel is active and
\* _evaluateAnimation samples the active channels.
\* An accessor of the document is absent, or present with an array of
\* 0..MaxKeys entries (getArray() returning null gives the empty array); the
\* keyframe times are 0, 2, 4, ... and the output value of a keyframe is its
\* time, so a whole-number sample time falls on a keyframe or halfway between
\* two and the linear interpolation stays whole; an output entry is one whole
\* value (3 or 4 floats).
Accessors == {[accessor |-> FALSE, length |-> 0]} \cup
             {[accessor |-> TRUE, length |-> n] : n \in 0..MaxKeys}
Interpolations == {"LINEAR", "STEP"}
TargetJoints == (-1)..(MaxTrackJoint + 1)
GltfChannels ==
    [input : Accessors, output : Accessors, interpolation : Interpolations,
     targetJointIndex : TargetJoints]

\* new Float32Array(array || []) of an accessor: here the times or values 0, 2, ...
ArrayOf(acc) == [k \in 1..acc.length |-> 2 * (k - 1)]

\* the times a channel is sampled at
SampleTimes == 0..(2 * MaxKeys)

\* _extractSingleAnimation: the sampler of the channel
ExtractSampler(gltf) ==
    IF ~gltf.input.accessor \/ ~gltf.output.accessor
    THEN [input |-> <<>>, output |-> <<>>, interpolation |-> "LINEAR"]
    ELSE [input |-> ArrayOf(gltf.input), output |-> ArrayOf(gltf.output),
          interpolation |-> gltf.interpolation]

CacheValidJoints(t) ==
    ~(t.gltf.targetJointIndex < 0 \/ t.gltf.targetJointIndex > MaxTrackJoint)

\* _cacheActiveChannels: is the channel pushed on _activeChannels
CacheActiveChannels(t) ==
    /\ ~(t.gltf.targetJointIndex < 0 \/ t.gltf.targetJointIndex > MaxTrackJoint)
    /\ ~(Len(t.sampler.input) = 0)

NullValue == [null |-> TRUE, at |-> 0]

\* _extractValueInto(values, index, size, target)
ExtractValueInto(values, index) ==
    IF index + 1 > Len(values) THEN NullValue ELSE [null |-> FALSE, at |-> values[index + 1]]

\* the keyframe the linear search of _sampleChannel stops at
RECURSIVE FindKeyframe(_, _, _)
FindKeyframe(times, time, i) ==
    IF i < Len(times) - 1 /\ time > times[i + 2] THEN FindKeyframe(times, time, i + 1) ELSE i

\* _sampleChannel(sampler, time, targetPath); vec3.lerp and quat.slerp are the
\* linear blend v0 + (v1 - v0) * factor, factor = (time - t0) / (t1 - t0)
SampleKeyframes(sampler, time) ==
    LET times == sampler.input
        values == sampler.output
    IN IF Len(times) = 0 THEN NullValue
       ELSE IF time <= times[1] THEN ExtractValueInto(values, 0)
       ELSE IF time >= times[Len(times)] THEN ExtractValueInto(values, Len(times) - 1)
       ELSE LET i == FindKeyframe(times, time, 0)
                v0 == ExtractValueInto(values, i)
                v1 == ExtractValueInto(values, i + 1)
            IN IF v0.null \/ v1.null THEN NullValue
               ELSE IF sampler.interpolation = "STEP" THEN v0
               ELSE [null |-> FALSE,
                     at |-> v0.at + ((v1.at - v0.at) * (time - times[i + 1]))
                                        \div (times[i + 2] - times[i + 1])]

\* _evaluateAnimation: every active channel is sampled at `time`
EvaluateTrack(t, time) ==
    IF t.active
    THEN [t EXCEPT !.sampled = TRUE, !.time = time,
                   !.value = SampleKeyframes(t.sampler, time)]
    ELSE [t EXCEPT !.time = time, !.value = NullValue]

\* play(clipName, startTime): the active channels are cached, then evaluated
PlayTrack(startTime) ==
    /\ track' = EvaluateTrack([track EXCEPT !.played = TRUE,
                                             !.active = CacheActiveChannels(track)], startTime)
    /\ PoolFrame /\ Keep("track")

\* update / setTime of a clip that was played: the cached channels are
\* evaluated at the new time
AdvanceTrack(time) ==
    /\ track.played
    /\ track' = EvaluateTrack(track, time)
    /\ PoolFrame /\ Keep("track")

TrackInit ==
    /\ env = NoWorkload
    /\ PoolInit
    /\ Idle("track")
    /\ \E gltf \in GltfChannels :
           track = [NoTrack EXCEPT !.gltf = gltf, !.sampler = ExtractSampler(gltf)]

TrackNext ==
    \/ \E startTime \in SampleTimes : PlayTrack(startTime)
    \/ \E time \in SampleTimes : AdvanceTrack(time)

TrackSpec == TrackInit /\ [][TrackNext]_vars

\* ---------------------------------------------------------------- instance tick
\* The plugin instance with a loaded skinned model whose animation plays,
\* looping and not paused: _tick with its frame skipping, the frame-skip and
\* LOD settings, and the worker switch.  _createAnimationController has set
\* useWorkerSkinning of the controller to true; hasWorkerSkinning of the model
\* is true when the model holds a pool with its skinned meshes registered.

\* AnimationController.update ends with `if (!this.useWorkerSkinning)
\* this._applyAllSkinning()`; _updateSkinnedMeshes queues the skinning on the
\* pool when the model has worker skinning and otherwise uploads the positions
\* the controller holds: the paths that compute positions for the new pose
SkinningPaths(i) ==
    (IF ~i.useWorkerSkinning THEN {"main"} ELSE {}) \cup
    (IF i.hasWorkerSkinning THEN {"pool"} ELSE {})

\* this._frameCounter = 0; this._accumulatedDt = 0
ResetCounters(i) == [i EXCEPT !.frameCounter = 0, !.accumulatedDt = 0]

InstanceStep(i) ==
    /\ ticker' = i
    /\ PoolFrame /\ Keep("instance")

\* _tick(); lodSkip is what _calculateDistanceFrameSkip returns for the
\* distance of the camera in this frame
Tick(dt, lodSkip) ==
    /\ ticker.ticks < MaxTicks
    /\ LET accumulated == ticker.accumulatedDt + dt
           counter == ticker.frameCounter + 1
           effectiveFrameSkip == IF ticker.distanceLodEnabled THEN lodSkip
                                 ELSE ticker.animationFrameSkip
           shouldUpdate == (counter + ticker.frameOffset) % (effectiveFrameSkip + 1) = 0
           i == [ticker EXCEPT !.frameCounter = counter, !.ticks = @ + 1, !.ticked = @ + dt]
       IN InstanceStep(IF shouldUpdate
                       THEN [i EXCEPT !.accumulatedDt = 0, !.passed = @ + accumulated,
                                      !.updated = TRUE, !.skinnedBy = SkinningPaths(i)]
                       ELSE [i EXCEPT !.accumulatedDt = accumulated, !.updated = FALSE])

\* _setAnimationFrameSkip(skip)
SetAnimationFrameSkip(skip) ==
    InstanceStep(ResetCounters([ticker EXCEPT !.animationFrameSkip = Max(0, skip),
                                                !.updated = FALSE]))

\* _setDistanceLodEnabled(enabled)
SetDistanceLodEnabled(enabled) ==
    InstanceStep([ticker EXCEPT !.distanceLodEnabled = enabled, !.updated = FALSE])

\* _setWorkerEnabled(enabled): GltfModel.setWorkersEnabled releases the pool,
\* or acquires it and registers the skinned meshes again
SetWorkerEnabled(enabled) ==
    InstanceStep([ticker EXCEPT !.hasWorkerSkinning = enabled, !.updated = FALSE])

\* the instance once its model is loaded, the controller created and a clip
\* played; the pool set-up of the model succeeded or failed
InstanceInit ==
    /\ env = NoWorkload
    /\ PoolInit
    /\ Idle("instance")
    /\ \E offset \in 0..MaxOffset, workers \in BOOLEAN :
           ticker = [NoInstance EXCEPT !.frameOffset = offset,
                                         !.hasWorkerSkinning = workers,
                                         !.useWorkerSkinning = TRUE]

InstanceNext ==
    \/ \E dt \in 1..MaxDt, lodSkip \in 0..MaxSkip : Tick(dt, lodSkip)
    \/ \E skip \in (-1)..MaxSkip : SetAnimationFrameSkip(skip)
    \/ \E enabled \in BOOLEAN : SetDistanceLodEnabled(enabled)
    \/ \E enabled \in BOOLEAN : SetWorkerEnabled(enabled)

InstanceSpec == InstanceInit /\ [][InstanceNext]_vars

\* ---------------------------------------------------------------- loading and releasing models
\* The GltfModel objects that plugin instances create for one URL, the entry
\* of modelCache for the URL and the reference count of SharedWorkerPool.
\* pc of a model: "new" before load() is called, "fresh" while it awaits its
\* own _loadFresh, "waiting" while it awaits the loading promise of another
\* model, "loaded" when load() returned, "failed" when it threw.  `released`
\* is set by GltfModel.release(); `deleted` counts the deletions of the entry.
\* _loadFromCache contains no await, so what follows an await in load() runs
\* to the end of _setupWorkerPool in one step.
Loaders == 1..MaxLoaders

\* modelCache.acquire(url)
CacheAcquire(cache) == IF cache.present THEN [cache EXCEPT !.refCount = @ + 1] ELSE cache

\* modelCache.release(url, renderer)
CacheRelease(cache) ==
    IF ~cache.present THEN cache
    ELSE IF cache.refCount - 1 <= 0
         THEN [present |-> FALSE, refCount |-> 0, deleted |-> cache.deleted + 1]
         ELSE [cache EXCEPT !.refCount = @ - 1]

\* _loadFromCache(renderer, cached, loadStart): the meshes are created and
\* _setupWorkerPool() takes a reference to the shared pool
LoadFromCache(l, m) ==
    [l EXCEPT !.pc[m] = "loaded", !.workerPool[m] = TRUE, !.poolRefCount = @ + 1]

\* load() of a waiting model after `await loadingPromise`
ContinueWaiting(l, m) == LoadFromCache([l EXCEPT !.cache = CacheAcquire(@)], m)

\* the waiting models continue, in the order of their ids, from model m on
RECURSIVE ContinueAll(_, _)
ContinueAll(l, m) ==
    IF m > MaxLoaders THEN l
    ELSE ContinueAll(IF l.pc[m] = "waiting" THEN ContinueWaiting(l, m) ELSE l, m + 1)

\* the waiting models see the loading promise rejected
FailWaiting(l) ==
    [l EXCEPT !.pc = [m \in Loaders |-> IF l.pc[m] = "waiting" THEN "failed" ELSE l.pc[m]]]

LoaderStep(l) ==
    /\ loader' = l
    /\ PoolFrame /\ Keep("loader")

\* GltfModel.load(renderer, url) up to its first await
StartLoad(m) ==
    /\ loader.pc[m] = "new"
    /\ LET l == [loader EXCEPT !.cachedUrl[m] = TRUE]
       IN LoaderStep(IF l.cache.present
                       THEN LoadFromCache([l EXCEPT !.cache = CacheAcquire(@)], m)
                     ELSE IF l.loading THEN [l EXCEPT !.pc[m] = "waiting"]
                     ELSE [l EXCEPT !.pc[m] = "fresh", !.loading = TRUE])

\* _loadFresh of model m resolves: modelCache.set(url, cached) with refCount 1,
\* _loadFromCache, and then the models that awaited the loading promise
FreshLoaded(m) ==
    /\ loader.pc[m] = "fresh"
    /\ LoaderStep(ContinueAll(
           LoadFromCache([loader EXCEPT
               !.cache = [present |-> TRUE, refCount |-> 1, deleted |-> loader.cache.deleted],
               !.loading = FALSE], m), 1))

\* _loadFresh of model m rejects: modelCache.clearLoading(url) and the error
\* reaches _loadModel, which drops the model without releasing it
FreshFailed(m) ==
    /\ loader.pc[m] = "fresh"
    /\ LoaderStep(FailWaiting([loader EXCEPT !.pc[m] = "failed", !.loading = FALSE]))

\* GltfModel.release(renderer), called once by _release or _loadModel of the
\* instance that holds the model
ReleaseModel(m) ==
    /\ loader.pc[m] \in {"fresh", "waiting", "loaded"}
    /\ ~loader.released[m]
    /\ LoaderStep([loader EXCEPT
           !.released[m] = TRUE,
           !.workerPool[m] = FALSE,
           !.poolRefCount = IF loader.workerPool[m] /\ @ > 0 THEN @ - 1 ELSE @,
           !.cachedUrl[m] = FALSE,
           !.cache = IF loader.cachedUrl[m] THEN CacheRelease(@) ELSE @])

LoaderInit ==
    /\ env = NoWorkload
    /\ PoolInit
    /\ Idle("loader")
    /\ loader = [NoLoader EXCEPT !.pc = [m \in Loaders |-> "new"],
                                 !.released = [m \in Loaders |-> FALSE],
                                 !.cachedUrl = [m \in Loaders |-> FALSE],
                                 !.workerPool = [m \in Loaders |-> FALSE]]

LoaderNext ==
    \/ \E m \in Loaders : StartLoad(m)
    \/ \E m \in Loaders : FreshLoaded(m)
    \/ \E m \in Loaders : FreshFailed(m)
    \/ \E m \in Loaders : ReleaseModel(m)

LoaderSpec == LoaderInit /\ [][LoaderNext]_vars

\* ---------------------------------------------------------------- properties
\* C1: no callback for a result of a flush is invoked until every batch
\* message posted by that flush has been answered
C1_CallbacksAfterAllAnswers == \A c \in obs.invoked : outstanding[c.flush] = 0

\* C2: while the pool lives, a flush whose promise has resolved has had every
\* batch message it posted answered, however many further flushes were made
C2_ResolvedAfterAllReplies == ~disposed => \A f \in resolved : outstanding[f] = 0

PostedCount(w, type) == Cardinality({p \in obs.posted : p[1] = w /\ p[3] = type})
QueuedCount(w, type) ==
    IF \E q \in obs.queued : q[1] = w /\ q[2] = type
      THEN (CHOOSE q \in obs.queued : q[1] = w /\ q[2] = type)[3]
      ELSE 0

\* C5 as stated: a flush posts to each worker exactly one message for each
\* request kind that has queued requests for it, and none for other kinds
C5_OneMessagePerKind ==
    \A w \in Workers : \A type \in BatchTypes :
        PostedCount(w, type) = IF QueuedCount(w, type) > 0 THEN 1 ELSE 0

\* C5 amended: a flush posts to each worker one TRANSFORM_BATCH if transforms
\* are queued for it, and one SKIN_BATCH or LIGHTING_BATCH for every queued
\* skinning or static lighting request, and nothing else
C5_OneMessagePerRequest ==
    \A w \in Workers :
        /\ PostedCount(w, "TRANSFORM_BATCH") =
               IF QueuedCount(w, "TRANSFORM_BATCH") > 0 THEN 1 ELSE 0
        /\ PostedCount(w, "SKIN_BATCH") = QueuedCount(w, "SKIN_BATCH")
        /\ PostedCount(w, "LIGHTING_BATCH") = QueuedCount(w, "LIGHTING_BATCH")
        /\ Cardinality({p \in obs.posted : p[1] = w}) =
               PostedCount(w, "TRANSFORM_BATCH") + PostedCount(w, "SKIN_BATCH")
               + PostedCount(w, "LIGHTING_BATCH")

\* a flush that found two skinning requests queued for one worker
C5_Witness ==
    \E w \in Workers :
        /\ QueuedCount(w, "SKIN_BATCH") = 2
        /\ PostedCount(w, "SKIN_BATCH") = 2

\* C6: once an id has been unregistered and the workers have handled all
\* their messages, no transform, skinning or static lighting cache of any
\* worker holds the id
C6_UnregisteredLeavesNoCache ==
    \A id \in MeshIds :
        (/\ instance
         /\ \A c \in live : c.meshId # id
         /\ \A w \in Workers : inbox[w] = <<>>)
        => \A w \in Workers :
               /\ id \notin meshCache[w]
               /\ skinnedMeshCache[w][id] = "absent"
               /\ id \notin staticLightingCache[w]

\* C7: every callback invoked was registered for the id of the result and the
\* id was not unregistered since, so none is invoked after unregisterMesh(id)
\* returned
C7_NoCallbackAfterUnregister ==
    \A c \in obs.invoked : Callback(c.callback, c.meshId) \in live

\* a result arrived for an id that had been unregistered and was dropped
C7_Witness == \E c \in obs.skipped : \A l \in live : l.meshId # c.meshId

\* C8: a batch none of whose meshes fails is answered, and the ids of the
\* response are exactly the requested ids present in the cache, in request order
C8_ResponseHasPresentIds ==
    (obs.batch.type \in BatchTypes /\ obs.batch.failed = {}) =>
        /\ obs.batch.replied
        /\ obs.batch.meshIds =
               SelectSeq(obs.batch.requested, LAMBDA id : id \in obs.batch.cached)

\* a batch of two ids, one of them absent from the cache, was answered with one
C8_Witness ==
    /\ obs.batch.replied
    /\ Len(obs.batch.requested) = 2
    /\ Len(obs.batch.meshIds) = 1

\* C9: when the processing of one mesh of a batch fails, the results of the
\* other meshes of the batch are still in a response
C9_OtherMeshesDelivered ==
    (obs.batch.type \in BatchTypes /\ obs.batch.failed # {}) =>
        \A id \in (Range(obs.batch.requested) \cap obs.batch.cached) \ obs.batch.failed :
            obs.batch.replied /\ id \in Range(obs.batch.meshIds)

\* C10: a pool exists exactly while references are held; it is constructed,
\* with all its workers running, by the acquire that takes the count from 0 to 1
\* and disposed, with all workers terminated, by the release that takes it to 0
C10_PoolIffReferenced ==
    /\ [](/\ instance <=> refCount > 0
          /\ instance <=> ~disposed
          /\ running = IF instance THEN Workers ELSE {})
    /\ [][instance' # instance =>
            IF instance' THEN refCount = 0 /\ refCount' = 1 /\ workerCount' >= 1
                         ELSE refCount = 1 /\ refCount' = 0]_vars

\* the pool was constructed and then disposed by the last release
C10_Witness == ~instance /\ refCount = 0 /\ workerCount > 0 /\ disposed /\ running = {}

\* C12: whatever workerCount argument and hardware concurrency the constructor
\* sees, the pool it builds owns between 1 and 8 workers
C12_WorkerCountInRange ==
    sizing.built => sizing.workers \in 1..MaxPoolWorkers /\ sizing.workerCount = sizing.workers

\* C11: when acquiring the shared pool failed during load or while workers
\* were being enabled, the call returned normally, the model has workers
\* disabled and holds no pool, and every update since took the synchronous path
C11_FallbackAfterFailedAcquire ==
    gltfModel.acquireFailed =>
        /\ ~gltfModel.threw
        /\ ~gltfModel.useWorkers
        /\ ~gltfModel.workerPool
        /\ gltfModel.path \in {"none", "sync", "clean"}

\* after a failed acquire the model was updated on the orchestrating thread
C11_Witness == gltfModel.acquireFailed /\ gltfModel.path = "sync" /\ ~instance

\* the cells of a packed buffer the worker laid out for mesh i of the batch
OwnSlice(buffer, i) == SelectSeq(buffer, LAMBDA c : c.mesh = i)

\* the slice of a packed buffer that entries i and i+1 of the offsets delimit
OffsetSlice(buffer, i) == Subarray(buffer, packing.offsets[i], packing.offsets[i + 1])

Responded == packing.stage \in {"response", "delivered"}

\* every callback got, for each buffer it takes, the slice laid out for its mesh
OwnSlicesDelivered ==
    packing.stage = "delivered" =>
        \A i \in 1..Len(packing.entries) :
            /\ packing.delivered[i].positions = OwnSlice(packing.positions, i)
            /\ packing.delivered[i].colors = OwnSlice(packing.colors, i)
            /\ packing.delivered[i].normals =
                   IF packing.entries[i].normals /\ packing.type = "SKIN_BATCH"
                     THEN OwnSlice(packing.normals, i) ELSE <<>>

\* C13 as stated: a response for N meshes has N+1 offsets, entries i and i+1
\* delimit the slice of mesh i in each packed buffer of the response, and every
\* callback receives the slices of its own mesh
C13_OffsetsDelimitEveryBuffer ==
    Responded =>
        /\ Len(packing.offsets) = Len(packing.entries) + 1
        /\ \A i \in 1..Len(packing.entries) :
               /\ OffsetSlice(packing.positions, i) = OwnSlice(packing.positions, i)
               /\ OffsetSlice(packing.normals, i) = OwnSlice(packing.normals, i)
               /\ OffsetSlice(packing.colors, i) = OwnSlice(packing.colors, i)
        /\ OwnSlicesDelivered

\* C13 amended: the offsets delimit the slices of the positions and normals
\* buffers of a transform or skinning response and of the colors buffer of a
\* lighting response; in the colors buffer of a skinning response the slice of
\* mesh i runs from 4/3 of entry i to 4/3 of entry i+1; every callback
\* receives the slices of its own mesh
C13_OffsetsDelimitPositionBuffers ==
    Responded =>
        /\ Len(packing.offsets) = Len(packing.entries) + 1
        /\ \A i \in 1..Len(packing.entries) :
               /\ OffsetSlice(packing.positions, i) = OwnSlice(packing.positions, i)
               /\ OffsetSlice(packing.normals, i) = OwnSlice(packing.normals, i)
               /\ IF packing.type = "SKIN_BATCH"
                    THEN Subarray(packing.colors, (packing.offsets[i] \div 3) * 4,
                                  (packing.offsets[i + 1] \div 3) * 4)
                         = OwnSlice(packing.colors, i)
                    ELSE OffsetSlice(packing.colors, i) = OwnSlice(packing.colors, i)
        /\ OwnSlicesDelivered

\* a lit skinning response for several meshes was handed out, colors included
C13_Witness ==
    /\ packing.stage = "delivered"
    /\ packing.type = "SKIN_BATCH"
    /\ Len(packing.entries) = MaxBatchMeshes
    /\ Len(packing.delivered[2].colors) = 4 * packing.entries[2].vertexCount
    /\ Len(packing.delivered[2].normals) = 3 * packing.entries[2].vertexCount

\* C14: a computed skin or static-lighting request used exactly the light
\* values the lightGlobals held when its snapshot was built, whatever happened to
\* the lightGlobals while the request was queued or posted
C14_SnapshotIsolated ==
    \A i \in 1..Len(lighting.requests) :
        LET r == lighting.requests[i] IN
        /\ r.stage \in {"posted", "computed"} /\ r.config.defined => r.message = r.at
        /\ r.stage = "computed" /\ r.config.defined => r.lit /\ r.used = r.at

C14_Witness ==
    \E i \in 1..Len(lighting.requests) :
        LET r == lighting.requests[i] IN
        /\ r.stage = "computed"
        /\ r.lit
        /\ Len(r.at.lights) > 0
        /\ {"queued", "posted"} \subseteq r.touched
        /\ r.at # RegistryValues

\* the playback fields, the pose and the matrices of two controller states agree
SamePlayback(a, b) ==
    /\ a.current = b.current /\ a.time = b.time
    /\ a.isPlaying = b.isPlaying /\ a.isPaused = b.isPaused
    /\ a.jointTransforms = b.jointTransforms /\ a.boneMatrices = b.boneMatrices

\* update() gets past its early returns
Advances(a) ==
    /\ a.isPlaying /\ ~a.isPaused /\ a.current # 0
    /\ Clips[a.current].duration > 0

\* C15: the controller is always Stopped, Playing or Paused, never paused
\* without playing; pause() changes the flags only in Playing (to Paused) and
\* resume() only in Paused (to Playing)
C15_StateMachine ==
    /\ [](~(anim.isPaused /\ ~anim.isPlaying))
    /\ [][anim'.call.op = "pause" =>
            IF anim.isPlaying /\ ~anim.isPaused THEN anim'.isPlaying /\ anim'.isPaused
            ELSE anim'.isPlaying = anim.isPlaying /\ anim'.isPaused = anim.isPaused]_vars
    /\ [][anim'.call.op = "resume" =>
            IF anim.isPlaying /\ anim.isPaused THEN anim'.isPlaying /\ ~anim'.isPaused
            ELSE anim'.isPlaying = anim.isPlaying /\ anim'.isPaused = anim.isPaused]_vars

C15_Witness == anim.call.op = "pause" /\ anim.current # 0 /\ anim.isPlaying /\ anim.isPaused

\* C16: without looping, an update() that moves the time to the clip end or
\* past it, or below zero, leaves the time at that end, clears the playing
\* flag and invokes onComplete once; onComplete is invoked at most once
\* after each start of playback, and never by an update() of a stopped controller
C16_CompletesOnce ==
    /\ [](anim.completions <= 1)
    /\ [][anim'.call.op = "update" /\ Advances(anim) /\ ~anim.loop =>
            LET advanced == anim.time + anim'.call.arg * anim.playbackRate
                duration == Clips[anim.current].duration
            IN IF advanced >= duration \/ advanced < 0
               THEN /\ anim'.time = (IF advanced >= duration THEN duration ELSE 0)
                    /\ ~anim'.isPlaying
                    /\ anim'.fired = 1
               ELSE anim'.fired = 0 /\ anim'.isPlaying]_vars
    /\ [][anim'.call.op = "update" /\ ~anim.isPlaying => anim'.fired = 0]_vars

C16_Witness ==
    /\ anim.call.op = "update" /\ anim.fired = 1 /\ anim.completions = 1
    /\ ~anim.isPlaying /\ ~anim.loop
    /\ anim.time = Clips[anim.current].duration

\* C17: after the updates of a looping clip of duration D > 0 started at 0,
\* whose rate-scaled delta times total T, the time, the pose and the matrices
\* are those setTime(T mod D) produces
C17_LoopMatchesSetTime ==
    anim.elapsed.valid /\ anim.call.op = "update" =>
        LET b == AfterSetTime(anim, anim.elapsed.total % Clips[anim.current].duration)
        IN SamePlayback(anim, b)

C17_Witness ==
    /\ anim.elapsed.valid /\ anim.call.op = "update"
    /\ anim.elapsed.total > 2 * Clips[anim.current].duration
    /\ anim.time > 0

\* C18: a play() or playByIndex() that makes another clip current leaves every
\* joint that no active channel of the new clip targets in bind pose
C18_SwitchResetsToBind ==
    [][anim'.call.op \in {"play", "playByIndex"} /\ anim'.current # anim.current =>
          \A j \in Joints \ ActiveJoints(anim'.current) :
              anim'.jointTransforms[j] = BindTransform]_vars

\* C19: play() of a name no clip has and playByIndex() of an index out of
\* range change nothing of the clip, time, flags, pose and matrices, and
\* invoke no callback
C19_UnknownClipIsNoOp ==
    [][(\/ anim'.call.op = "play" /\ \A c \in 1..Len(Clips) : Clips[c].name # anim'.call.name
        \/ anim'.call.op = "playByIndex"
              /\ (anim'.call.index < 0 \/ anim'.call.index >= Len(Clips)))
       => SamePlayback(anim, anim') /\ anim'.fired = 0]_vars

C19_Witness ==
    /\ anim.call.op = "playByIndex" /\ anim.call.index = Len(Clips)
    /\ anim.current # 0 /\ anim.isPlaying /\ anim.time > 0

\* C20: update() changes nothing of the time, flags, pose and matrices and
\* invokes no callback when the controller is not playing, is paused, or
\* the current clip's duration is not positive
C20_UpdateIsNoOpWhenIdle ==
    [][anim'.call.op = "update"
         /\ (\/ ~anim.isPlaying
             \/ anim.isPaused
             \/ (anim.current # 0 /\ Clips[anim.current].duration <= 0))
       => SamePlayback(anim, anim') /\ anim'.fired = 0]_vars

C20_Witness ==
    /\ anim.call.op = "update" /\ anim.call.arg > 0 /\ anim.playbackRate > 0
    /\ anim.isPlaying /\ anim.isPaused
    /\ Clips[anim.current].duration > anim.time

\* C21: setTime(t) leaves the time at t clamped into [0, duration] (the
\* duration is 0 without a current clip), keeps the playing and the paused
\* flag and invokes no callback
C21_SetTimeClampsAndKeepsFlags ==
    [][anim'.call.op = "setTime" =>
          LET duration == IF anim.current = 0 THEN 0 ELSE Clips[anim.current].duration
              t == anim'.call.arg
          IN /\ anim'.time = (IF t < 0 THEN 0 ELSE IF t > duration THEN duration ELSE t)
             /\ anim'.isPlaying = anim.isPlaying
             /\ anim'.isPaused = anim.isPaused
             /\ anim'.fired = 0]_vars

C21_Witness ==
    /\ anim.call.op = "setTime" /\ anim.current # 0
    /\ anim.call.arg > Clips[anim.current].duration
    /\ anim.time = Clips[anim.current].duration /\ anim.time > 0
    /\ anim.isPlaying /\ anim.isPaused /\ ~anim.loop

\* C22: a per-mesh query with an index below 0 or not below the mesh count
\* returns null or an empty value and raises no error
C22_InvalidIndexReturnsEmpty ==
    queries.op \in MeshQueries
        /\ (queries.meshIndex < 0 \/ queries.meshIndex >= Len(queries.meshes))
    => ~queries.threw /\ queries.returned \in {"null", "empty"}

\* the sum of the weighted transforms of the influences of a vertex whose
\* joint index is within the bone matrices
RECURSIVE InRangeSum(_, _, _)
InRangeSum(inf, v, j) ==
    IF j > InfluencesPerVertex THEN 0
    ELSE (IF inf[j].joint < BoneCount THEN (v + inf[j].joint + 1) * inf[j].weight ELSE 0)
         + InRangeSum(inf, v, j + 1)

\* C23: on either thread every vertex of a skinned mesh is the weighted sum
\* of its influences with a joint index in range; an influence with an index
\* out of range is left out and spoils neither the vertex nor the mesh
C23_OutOfRangeJointSkipped ==
    skinning.by # "none" =>
        \A v \in 1..Len(skinning.vertices) :
            skinning.output[v] = Number(InRangeSum(skinning.vertices[v], v, 1))

\* C24: for the same vertex and light state the two lighting evaluators
\* give the same RGBA value
C24_EvaluatorsAgree ==
    shading.main.done /\ shading.worker.done => shading.main = shading.worker

\* the light state without its spot light
WithoutSpot(in) == [in EXCEPT !.spot = "absent"]

\* C30: a spot light with a range above 0, shining at the vertex along its
\* axis from farther away than the range, adds nothing to the colour either
\* evaluator gives: the colour is the one computed without the spot light
C30_NothingBeyondRange ==
    LET in == shading.input IN
    in.spot = "enabled" /\ in.range > 0 /\ in.dist > in.range =>
        /\ shading.main.done => shading.main = MainColor(WithoutSpot(in))
        /\ shading.worker.done => shading.worker = WorkerColor(WithoutSpot(in))

C30_Witness ==
    LET in == shading.input IN
    /\ shading.main.done /\ shading.worker.done
    /\ in.spot = "enabled" /\ in.range = 1 /\ in.dist = 2
    /\ in.spotDir = -1 /\ in.nz = 1
    /\ in.spotSpecular /\ in.specularIntensity > 0 /\ in.camera = "above" /\ ~in.debugBlue

\* the state of the light entities: everything but the version and the ids
\* handed out so far
LightState(reg) ==
    [lights |-> reg.lights, spotLights |-> reg.spotLights, ambient |-> reg.ambient,
     hemisphere |-> reg.hemisphere, specularIntensity |-> reg.specularIntensity]

\* C25: a call that changes the state of a light entity raises the lighting
\* version, and no call lowers it
C25_VersionTracksChanges ==
    /\ [][LightState(lightGlobals') # LightState(lightGlobals)
            => lightGlobals'.version > lightGlobals.version]_vars
    /\ [][lightGlobals'.version >= lightGlobals.version]_vars

C25_Witness ==
    /\ lightGlobals.version = MaxVersion
    /\ Len(lightGlobals.spotLights) = 1 /\ Len(lightGlobals.lights) = 1
    /\ lightGlobals.spotLights[1].range > 0
    /\ ~lightGlobals.lights[1].enabled

\* C26: the outer cone angle of every spot light is at least its inner cone
\* angle (JavaScript >=), whatever arguments created or changed it
C26_OuterAtLeastInner ==
    \A i \in 1..Len(lightGlobals.spotLights) :
        AtLeast(lightGlobals.spotLights[i].outerConeAngle, lightGlobals.spotLights[i].innerConeAngle)

\* C27: every id returned by createDirectionalLight or createSpotLight is
\* greater than every id either of them returned before
C27_IdsIncrease ==
    \A i \in 1..Len(lightGlobals.returned) : \A k \in 1..(i - 1) :
        lightGlobals.returned[k] < lightGlobals.returned[i]

C27_Witness ==
    /\ Len(lightGlobals.returned) = 3
    /\ Len(lightGlobals.lights) = 1 /\ Len(lightGlobals.spotLights) = 1
    /\ lightGlobals.lights[1].id = 2 /\ lightGlobals.spotLights[1].id = 1

\* C28: after an evaluation the world matrix of a joint with a parent is the
\* parent's world matrix times the joint's local matrix, and the world matrix
\* of a root is its local matrix, wherever the parent is stored
C28_WorldIsParentTimesLocal ==
    \A j \in DOMAIN skeleton.parents :
        skeleton.world[j] =
            IF skeleton.parents[j] # 0
            THEN Multiply(skeleton.world[skeleton.parents[j]],
                          FromRotationTranslationScale(skeleton.transforms[j]))
            ELSE FromRotationTranslationScale(skeleton.transforms[j])

\* a chain stored child first, posed away from the bind pose
C28_Witness ==
    /\ skeleton.parents = <<2, 3, 0>>
    /\ skeleton.transforms = <<2, 1, 2>>
    /\ skeleton.world[1] = <<2, 1, 2>>

\* the document gives the sampler no keyframe times, or no output values
MissingData(acc) == ~acc.accessor \/ acc.length = 0

KeysUpTo(sampler, time) == {k \in 1..Len(sampler.input) : sampler.input[k] <= time}

\* the value of the latest keyframe at or before `time`, of the first keyframe
\* when there is none
LatestValue(sampler, time) ==
    IF KeysUpTo(sampler, time) = {} THEN sampler.output[1]
    ELSE sampler.output[CHOOSE k \in KeysUpTo(sampler, time) :
                            \A n \in KeysUpTo(sampler, time) : n <= k]

\* C39: a STEP sampler sampled at a time returns the value of the latest
\* keyframe at or before that time, the first keyframe's value before all of them
C39_StepReturnsLatest ==
    (/\ track.sampled /\ track.active
     /\ track.sampler.interpolation = "STEP"
     /\ Len(track.sampler.output) >= Len(track.sampler.input))
        => ~track.value.null /\ track.value.at = LatestValue(track.sampler, track.time)

\* C38: whatever was called, the current time of a controller with a clip lies
\* between 0 and the duration of that clip
C38_TimeWithinClip ==
    anim.current # 0 => 0 <= anim.time /\ anim.time <= Clips[anim.current].duration

\* a looping clip played backwards has wrapped below 0 and back into the clip
C38_Witness ==
    /\ anim.call.op = "update" /\ anim.current # 0 /\ anim.loop /\ anim.isPlaying
    /\ anim.playbackRate < 0
    /\ anim.time > 0 /\ anim.time + anim.call.arg * anim.playbackRate < 0

\* C31: in every animation update exactly one path computes the skinned
\* positions of the new pose: the pool when the model has worker skinning,
\* the controller on the main thread otherwise
C31_ExactlyOnePathSkins ==
    ticker.updated =>
        ticker.skinnedBy = IF ticker.hasWorkerSkinning THEN {"pool"} ELSE {"main"}

\* C36: at every update of a playing animation the delta times passed to the
\* controller add up to the dt of all ticks so far
C36_NoTimeLost ==
    ticker.updated => ticker.passed = ticker.ticked

\* C35: a loaded model that uses workers, after being switched off and on
\* again too, has its mesh registered in the pool it holds
C35_ReenabledIsRegistered ==
    (gltfModel.loaded /\ gltfModel.workerPool /\ gltfModel.useWorkers)
        => instance /\ meshRegistry[ModelMesh] # NoReg

\* C32: once every worker has answered every batch message posted to it and
\* every response has been handled, no result is left in the pending-results
\* buffer: each was passed to _invokeAllCallbacks
C32_NoResultStranded ==
    (/\ instance /\ ~disposed
     /\ unanswered = 0
     /\ \A w \in Workers : inbox[w] = <<>> /\ outbox[w] = <<>>)
        => pendingResults = <<>>

\* C37: the step that disposes the pool resolves the promise of every flush
\* that posted messages and had not resolved yet
C37_DisposeResolvesFlushes ==
    [][(~disposed /\ disposed') => \A f \in 1..(nextFlush - 1) : f \in resolved']_vars

\* the pool was disposed while the first flush still waited for an answer
C37_Witness ==
    /\ disposed /\ ~instance
    /\ pendingResponses > 0
    /\ 1 \in resolved /\ outstanding[1] > 0

\* the models whose load is still in progress, and the models that loaded the
\* URL and have not been released
InProgress == {m \in DOMAIN loader.pc : loader.pc[m] \in {"fresh", "waiting"}}
Holding == {m \in DOMAIN loader.pc : loader.pc[m] = "loaded" /\ ~loader.released[m]}

\* C33: the count of the shared pool is the number of models holding a pool
\* reference, and it is zero once no load is in progress and every model that
\* began loading was released or failed
C33_PoolCountMatchesModels ==
    /\ loader.poolRefCount = Cardinality({m \in DOMAIN loader.pc : loader.workerPool[m]})
    /\ (InProgress = {} /\ Holding = {}) => loader.poolRefCount = 0

\* C34: the refCount of the cache entry is the number of models that loaded
\* the URL and were not released, and the entry exists exactly while that
\* number is not zero
C34_CacheCountMatchesModels ==
    /\ loader.cache.refCount = Cardinality(Holding)
    /\ loader.cache.present <=> Holding # {}

====
